---- MODULE Spec2Model ----
(***************************************************************************)
(* State-machine model of the clearcut mask editor: the zustand store's    *)
(* bounded undo/redo history (src/stores/appStore.ts), the brush surfaces  *)
(* that mutate the mask and push snapshots (EditingView, RefineEdgesCanvas)*)
(* and the refinement session (RefineEdgesModal, EditModal).               *)
(***************************************************************************)
EXTENDS Integers, Sequences, FiniteSets, TLC

\* ---------------------------------------------------------------- bounds
MaxPushes == 22        \* store-level pushes explored after a reset
MaxBranches == 1       \* store-level pushes that discard a redo branch
MaxUploads == 1        \* images selected in one page session
MaxSizes == 1          \* distinct natural sizes among the selected images
MaxStrokes == 1        \* strokes ended per image
MaxPending == 1        \* snapshot restorations in flight
MaxTouches == 2        \* simultaneous touch contacts
MaxLanding == 1        \* contacts that land in one touchstart event
MaxPan == 0            \* largest pan offset explored (in drag steps)
MaxZoom == 10          \* largest zoom level explored (tenths: 10 is 1.0)

\* ------------------------------------------------------ program constants
HistoryLimit == 20     \* appStore.ts: if (newHistory.length > 20)

None == [null |-> TRUE]   \* JavaScript null (comparable with a snapshot)

VARIABLES
  \* ---- store (appStore.ts)
  history,        \* store.history: sequence of snapshots (index 1 = oldest)
  historyIndex,   \* store.historyIndex, 0-based as in the code, -1 = empty
  originalImage,  \* store.originalImage: 0 = null, else the upload's number
  maskCanvas,     \* store.maskCanvas: None or [id, px (alpha), width, height]
  brushMode,      \* store.brushMode
  isEditModalOpen, hasUnsavedEdits,
  editState,      \* store.editState: [rotation, flipHorizontal, flipVertical,
                  \*  zoom (hundredths), pan, filters, aspectRatio, cropBox,
                  \*  cropDisplayScale]
  isRefineModalOpen,
  preRefineMaskSnapshot,
  refineEdgesState,  \* [zoom (tenths), pan, isSpacePressed]
  \* ---- BackgroundRemover
  viewState,
  jobs,           \* uploads in flight: set of [id, stage]
  uploads,        \* natural sizes of the images selected since page load
  \* ---- EditModal / RefineEdgesModal component state
  emConfirm,      \* EditModal.showConfirmDialog
  hasSessionEdits, rmConfirm, pendingAction,
  \* ---- EditPreview component state
  dragState,      \* [isDragging, handleType, startX, startY, startCrop]
  \* ---- RefineEdgesCanvas and EditingView refs
  rc,             \* [isDrawing, lastPos, isPanning, lastPanPos,
                  \*  touchStartDistance, touchStartZoom]
  ev,             \* [isDrawing, lastPos]
  \* ---- environment
  touches,        \* contacts currently on the touch screen
  restores,       \* restoreMaskSnapshot calls whose image has not loaded yet
  gesture,        \* contacts that were down when the touch gesture began
  \* ---- observation
  baseline,       \* mask content when the open editor / refine session opened
  tally,          \* clicks and drags since the edit state was last reset:
                  \*  [rights, lefts] on the rotate buttons, drags of the crop
                  \*  box
  ret,            \* value returned by the last undo()/redo() call
  lastOp,         \* name of the operation that produced this state
  lastRestore,    \* the restoration completed by the last step (or None)
  pushed,         \* log of the snapshots pushed since the last reset
  strokes,        \* strokes ended since the last reset
  consecutive,    \* TRUE while only pushes happened since the last reset
  branches,       \* store-level pushes that discarded a redo branch
  prev,           \* store-level: lastOp, ret, historyIndex of the state before
  \* ---- library calls examined on their own (brushTool.ts, segmentation.ts)
  lib,            \* None, or the inputs and the result of the last call
  \* ---- exploration
  cap             \* the caps the guards of this behaviour apply

storeVars == <<history, historyIndex, ret, lastOp, pushed, consecutive,
               branches, prev>>

sessionVars == <<originalImage, maskCanvas, brushMode, isEditModalOpen,
                 hasUnsavedEdits, editState, isRefineModalOpen,
                 preRefineMaskSnapshot, refineEdgesState, viewState, jobs,
                 uploads, emConfirm, hasSessionEdits, rmConfirm,
                 pendingAction, rc, ev, touches, restores, lastRestore,
                 strokes, lib, gesture, baseline, cap, dragState, tally>>

vars == <<storeVars, sessionVars>>

\* --------------------------------------------------------------- helpers
\* Array.prototype.slice(0, n) on a sequence: the first n entries.
SliceTo(s, n) == SubSeq(s, 1, IF n < Len(s) THEN n ELSE Len(s))

\* The last n entries of a sequence (all of it when shorter).
LastN(s, n) == IF Len(s) <= n THEN s ELSE SubSeq(s, Len(s) - n + 1, Len(s))

\* ------------------------------------------------------ store: history
\* pushHistory with the length test off by one (keeps 21 entries).
pushHistory_keeps21(h, i, s) ==
  LET newHistory == Append(SliceTo(h, i + 1), s)
      kept == IF Len(newHistory) > HistoryLimit + 1 THEN Tail(newHistory)
              ELSE newHistory
  IN [history |-> kept, historyIndex |-> Len(kept) - 1]

\* pushHistory that appends without discarding the redo branch.
pushHistory_keepsFuture(h, i, s) ==
  LET newHistory == Append(h, s)
      kept == IF Len(newHistory) > HistoryLimit THEN Tail(newHistory)
              ELSE newHistory
  IN [history |-> kept, historyIndex |-> Len(kept) - 1]

\* pushHistory that leaves the index where the entry was inserted before
\* the eviction (index not decremented after shift()).
pushHistory_staleIndex(h, i, s) ==
  LET newHistory == Append(SliceTo(h, i + 1), s)
      kept == IF Len(newHistory) > HistoryLimit THEN Tail(newHistory)
              ELSE newHistory
  IN [history |-> kept, historyIndex |-> Len(newHistory) - 1]

\* pushHistory(snapshot): slice(0, historyIndex + 1), append, shift() when
\* longer than 20, index = new length - 1.
pushHistory(h, i, s) ==
  LET newHistory == Append(SliceTo(h, i + 1), s)
      kept == IF Len(newHistory) > HistoryLimit THEN Tail(newHistory)
              ELSE newHistory
  IN [history |-> kept, historyIndex |-> Len(kept) - 1]

\* undo without the historyIndex <= 0 guard's equality case.
undo_noFloor(h, i) ==
  IF i < 0 THEN [historyIndex |-> i, ret |-> None]
  ELSE [historyIndex |-> i - 1,
        ret |-> IF i - 1 >= 0 THEN h[i] ELSE None]

\* undo that returns the entry it left instead of the one it moved to.
undo_returnsOld(h, i) ==
  IF i <= 0 THEN [historyIndex |-> i, ret |-> None]
  ELSE [historyIndex |-> i - 1, ret |-> h[i + 1]]

\* undo(): null when historyIndex <= 0, else decrement and return
\* history[newIndex] (h is 1-based, so entry newIndex is h[newIndex + 1]).
undo(h, i) ==
  IF i <= 0 THEN [historyIndex |-> i, ret |-> None]
  ELSE [historyIndex |-> i - 1, ret |-> h[(i - 1) + 1]]

\* redo that returns the entry it left instead of the one it moved to.
redo_returnsOld(h, i) ==
  IF i >= Len(h) - 1 THEN [historyIndex |-> i, ret |-> None]
  ELSE [historyIndex |-> i + 1, ret |-> h[i + 1]]

\* redo that wraps to the oldest entry when already at the newest.
redo_wraps(h, i) ==
  IF Len(h) = 0 THEN [historyIndex |-> i, ret |-> None]
  ELSE IF i >= Len(h) - 1 THEN [historyIndex |-> 0, ret |-> h[1]]
  ELSE [historyIndex |-> i + 1, ret |-> h[(i + 1) + 1]]

\* redo(): null when historyIndex >= length - 1, else increment and return
\* history[newIndex].
redo(h, i) ==
  IF i >= Len(h) - 1 THEN [historyIndex |-> i, ret |-> None]
  ELSE [historyIndex |-> i + 1, ret |-> h[(i + 1) + 1]]

\* saveMaskSnapshot: canvas.toDataURL('image/png') - a PNG encoding that
\* carries the canvas content.
saveMaskSnapshot(content) == [png |-> content]


\* ------------------------------------------------------- mask and brush
\* The mask canvas is followed at one pixel; its content is that pixel's
\* alpha (the colour channels are white everywhere, rawImageToCanvas).
Pixels == {"p"}

\* Segmentation outputs handed to rawImageToCanvas: an opaque (foreground)
\* pixel.
SegMasks == {[x \in Pixels |-> 255]}

\* The pixel sets a stroke segment covers (a capsule around the pointer).
Covers == (SUBSET Pixels) \ {{}}

\* Natural sizes of the images a user selects (the first n of them).
ImageSizes(n) == {[naturalWidth |-> k, naturalHeight |-> 1] : k \in 1..n}

\* Resolutions the segmentation model returns its mask at.
MaskResolutions == {[width |-> 1, height |-> 1], [width |-> 2, height |-> 2]}

\* rawImageToCanvas: a canvas of the target size; the mask data is put on it
\* directly when the sizes agree, else put on a temporary canvas of the
\* mask's size and drawn scaled to the target.  id names the new canvas.
rawImageToCanvas(id, mask, targetWidth, targetHeight) ==
  IF mask.width # targetWidth \/ mask.height # targetHeight
  THEN [id |-> id, px |-> mask.data, width |-> targetWidth,
        height |-> targetHeight]
  ELSE [id |-> id, px |-> mask.data, width |-> targetWidth,
        height |-> targetHeight]

\* drawBrushLine that paints restore strokes with destination-out as well.
drawBrushLine_alwaysErase(px, cov, mode) ==
  [x \in DOMAIN px |-> IF x \in cov THEN 0 ELSE px[x]]

\* drawBrushLine: destination-out with an opaque stroke clears the covered
\* pixels, source-over with opaque white sets them to 255.
drawBrushLine(px, cov, mode) ==
  [x \in DOMAIN px |-> IF x \in cov THEN (IF mode = "erase" THEN 0 ELSE 255)
                       ELSE px[x]]

\* ctx.clearRect over the whole canvas.
clearRect(px) == [x \in Pixels |-> 0]

\* ctx.drawImage with the default source-over composite.
drawImage(dst, src) ==
  [x \in Pixels |-> src[x] + (dst[x] * (255 - src[x])) \div 255]

\* restoreMaskSnapshot that draws the decoded image over the old content.
restoreMaskSnapshot_noClear(px, snapshot) == drawImage(px, snapshot.png)

\* restoreMaskSnapshot, at img.onload: clearRect, then drawImage of the
\* decoded PNG.
restoreMaskSnapshot(px, snapshot) == drawImage(clearRect(px), snapshot.png)

\* setRefineZoom storing the zoom it is given.
clampRefineZoom_none(z) == z

\* Math.max(1.0, Math.min(4.0, zoom)), zoom in tenths.
clampRefineZoom(z) == IF z < 10 THEN 10 ELSE IF z > 40 THEN 40 ELSE z

\* Zoom slider positions, wheel deltas and pinch ratios explored.
SliderZooms == {5, 10, 25, 40, 45}
WheelDeltas == {-15, 15}
PinchScales == {"apart", "same", "together"}
PanDeltas == {-1, 0, 1}

\* touchStartZoom * (distance / touchStartDistance) for the three ratios 4,
\* 1 and 1/4.
pinchZoom(z, scale) ==
  IF scale = "apart" THEN z * 4 ELSE IF scale = "together" THEN z \div 4 ELSE z

\* editInitialState (zoom in hundredths: 100 is 1.0; pan in pixels; the
\* display scale a fraction n / d).
editInitialState ==
  [rotation |-> 0, flipHorizontal |-> FALSE, flipVertical |-> FALSE,
   zoom |-> 100, pan |-> [x |-> 0, y |-> 0],
   filters |-> [brightness |-> 100, contrast |-> 100, saturation |-> 100,
                blur |-> 0],
   aspectRatio |-> "original", cropBox |-> None,
   cropDisplayScale |-> [n |-> 1, d |-> 1]]

\* The editState that store.setEditState(partial) stores:
\* { ...state.editState, ...partial }.
setEditState(state, partial) ==
  [f \in DOMAIN state |-> IF f \in DOMAIN partial THEN partial[f] ELSE state[f]]

\* ------------------------------------------- exact lengths and the crop box
RECURSIVE gcd(_, _)
gcd(a, b) == IF b = 0 THEN a ELSE gcd(b, a % b)

abs(a) == IF a < 0 THEN -a ELSE a

\* The number n / d (d # 0) as a fraction in lowest terms.
Q(n, d) ==
  LET g == gcd(abs(n), abs(d))
      sgn == IF d < 0 THEN -1 ELSE 1
  IN [n |-> sgn * (n \div g), d |-> sgn * (d \div g)]

qInt(k) == [n |-> k, d |-> 1]
qAdd(a, b) == Q(a.n * b.d + b.n * a.d, a.d * b.d)
qSub(a, b) == Q(a.n * b.d - b.n * a.d, a.d * b.d)
qMul(a, b) == Q(a.n * b.n, a.d * b.d)
qDiv(a, b) == Q(a.n * b.d, a.d * b.n)
qLt(a, b) == a.n * b.d < b.n * a.d
qLe(a, b) == a.n * b.d <= b.n * a.d
qMax(a, b) == IF qLt(a, b) THEN b ELSE a
qAbs(a) == [n |-> abs(a.n), d |-> a.d]
qHalf(a) == qDiv(a, qInt(2))
qFloor(a) == a.n \div a.d

AspectRatios == {"original", "free", "1:1", "4:3", "16:9", "9:16"}

\* ASPECT_RATIO_VALUES[aspectRatio]: None is null.
ASPECT_RATIO_VALUES(aspectRatio) ==
  CASE aspectRatio = "1:1" -> qInt(1)
    [] aspectRatio = "4:3" -> Q(4, 3)
    [] aspectRatio = "16:9" -> Q(16, 9)
    [] aspectRatio = "9:16" -> Q(9, 16)
    [] OTHER -> None

\* A default crop that is the whole canvas for every selection.
calculateDefaultCrop_full(canvasWidth, canvasHeight, aspectRatio) ==
  [x |-> qInt(0), y |-> qInt(0), width |-> qInt(canvasWidth),
   height |-> qInt(canvasHeight)]

\* calculateDefaultCrop(canvasWidth, canvasHeight, aspectRatio).
calculateDefaultCrop(canvasWidth, canvasHeight, aspectRatio) ==
  LET targetRatio == ASPECT_RATIO_VALUES(aspectRatio)
      cw == qInt(canvasWidth)
      ch == qInt(canvasHeight)
  IN IF targetRatio = None
     THEN [x |-> qInt(0), y |-> qInt(0), width |-> cw, height |-> ch]
     ELSE LET wider == qLt(targetRatio, qDiv(cw, ch))
              cropHeight == IF wider THEN qMul(ch, Q(8, 10))
                            ELSE qDiv(qMul(cw, Q(8, 10)), targetRatio)
              cropWidth == IF wider THEN qMul(cropHeight, targetRatio)
                           ELSE qMul(cw, Q(8, 10))
          IN [x |-> qHalf(qSub(cw, cropWidth)),
              y |-> qHalf(qSub(ch, cropHeight)),
              width |-> cropWidth, height |-> cropHeight]

\* An effect that leaves the crop box in place when "original" is selected.
cropEffect_keepsBox(state, canvas, image) ==
  IF state.aspectRatio = "original" \/ state.cropBox # None THEN state
  ELSE setEditState(state,
         [cropBox |-> calculateDefaultCrop(canvas.width, canvas.height,
                                           state.aspectRatio),
          cropDisplayScale |-> Q(canvas.width, image.naturalWidth)])

\* EditPreview's effect on [editState.aspectRatio, originalImage.width]: no
\* crop box for original, the default box for a fixed ratio or when there is
\* none yet, the display scale in any case.
cropEffect(state, canvas, image) ==
  LET displayScale == Q(canvas.width, image.naturalWidth)
  IN IF state.aspectRatio = "original"
     THEN setEditState(state, [cropBox |-> None])
     ELSE IF state.cropBox = None
             \/ ASPECT_RATIO_VALUES(state.aspectRatio) # None
     THEN setEditState(state,
            [cropBox |-> calculateDefaultCrop(canvas.width, canvas.height,
                                              state.aspectRatio),
             cropDisplayScale |-> displayScale])
     ELSE setEditState(state, [cropDisplayScale |-> displayScale])

\* The preview canvas as EditPreview finds it in its first crop effect: the
\* element's default size, the sizing effect being declared after it.
UnsizedCanvas == [width |-> 300, height |-> 150]

\* Whether the crop effect, run on mount, calls setEditState.
mountStores(state) == state.aspectRatio # "original" \/ state.cropBox # None

\* The edit state after EditPreview has mounted.
mountEffect(state, image) == cropEffect(state, UnsizedCanvas, image)


\* refineEdgesInitialState (zoom in tenths: 10 is 1.0).
refineEdgesInitialState == [zoom |-> 10, pan |-> 0, isSpacePressed |-> FALSE]

\* The refs of RefineEdgesCanvas as created by useRef on mount.
rcInitial == [isDrawing |-> FALSE, lastPos |-> FALSE, isPanning |-> FALSE,
              lastPanPos |-> FALSE, touchStartDistance |-> FALSE,
              touchStartZoom |-> 10]

\* The refs of EditingView as created by useRef on mount.
evInitial == [isDrawing |-> FALSE, lastPos |-> FALSE]

\* EditPreview's dragState as created by useState on mount (numbers are
\* fractions n / d).
dragInitial ==
  LET zero == [n |-> 0, d |-> 1]
  IN [isDragging |-> FALSE, handleType |-> "null", startX |-> zero,
      startY |-> zero,
      startCrop |-> [x |-> zero, y |-> zero, width |-> zero,
                     height |-> zero]]

\* No rotate button clicked and no crop handle dragged yet.
NoTally == [rights |-> 0, lefts |-> 0, drags |-> 0]

\* Nothing recorded: no editor and no refine session has been opened.
NoBaseline == [editor |-> None, refine |-> None]

\* The edit the session machine follows: the zoom slider moved to 2.0.
SessionEdits == {[zoom |-> 200]}

\* The caps of the full session machine.
SessionCap == [uploads |-> MaxUploads, sizes |-> MaxSizes,
               strokes |-> MaxStrokes,
               pending |-> MaxPending, touches |-> MaxTouches,
               landing |-> MaxLanding, pan |-> MaxPan, zoom |-> MaxZoom,
               edits |-> SessionEdits]

\* ------------------------------------------------- store-level machine
initialState ==
  /\ history = <<>>
  /\ historyIndex = -1
  /\ ret = None
  /\ lastOp = "init"
  /\ pushed = <<>>
  /\ consecutive = TRUE
  /\ branches = 0
  /\ prev = [op |-> "init", ret |-> None, idx |-> -1]
  /\ originalImage = 0
  /\ maskCanvas = None
  /\ brushMode = "erase"
  /\ isEditModalOpen = FALSE
  /\ hasUnsavedEdits = FALSE
  /\ editState = editInitialState
  /\ isRefineModalOpen = FALSE
  /\ preRefineMaskSnapshot = None
  /\ refineEdgesState = refineEdgesInitialState
  /\ viewState = "upload"
  /\ jobs = {}
  /\ uploads = <<>>
  /\ emConfirm = FALSE
  /\ hasSessionEdits = FALSE
  /\ rmConfirm = FALSE
  /\ pendingAction = None
  /\ rc = rcInitial
  /\ ev = evInitial
  /\ touches = 0
  /\ restores = <<>>
  /\ lastRestore = None
  /\ strokes = 0
  /\ gesture = 0
  /\ baseline = NoBaseline
  /\ dragState = dragInitial
  /\ tally = NoTally

\* The page as loaded: the store's initialState, nothing mounted, no library
\* call under examination.
Init == initialState /\ lib = None /\ cap = SessionCap

\* The observation of the current state that the next state keeps in prev.
Observed == [op |-> lastOp, ret |-> ret, idx |-> historyIndex]

\* store.pushHistory called with a snapshot not seen before (the store never
\* inspects a snapshot, so distinct payloads are the general case).
StorePush ==
  /\ Len(pushed) < MaxPushes
  /\ (historyIndex < Len(history) - 1) => branches < MaxBranches
  /\ LET s == saveMaskSnapshot(Len(pushed) + 1)
         r == pushHistory(history, historyIndex, s)
     IN /\ history' = r.history
        /\ historyIndex' = r.historyIndex
        /\ pushed' = Append(pushed, s)
  /\ branches' = IF historyIndex < Len(history) - 1 THEN branches + 1
                 ELSE branches
  /\ ret' = None
  /\ lastOp' = "push"
  /\ prev' = Observed
  /\ UNCHANGED <<consecutive, sessionVars>>

StoreUndo ==
  /\ LET r == undo(history, historyIndex)
     IN /\ historyIndex' = r.historyIndex
        /\ ret' = r.ret
  /\ lastOp' = "undo"
  /\ prev' = Observed
  /\ consecutive' = FALSE
  /\ UNCHANGED <<history, pushed, branches, sessionVars>>

StoreRedo ==
  /\ LET r == redo(history, historyIndex)
     IN /\ historyIndex' = r.historyIndex
        /\ ret' = r.ret
  /\ lastOp' = "redo"
  /\ prev' = Observed
  /\ consecutive' = FALSE
  /\ UNCHANGED <<history, pushed, branches, sessionVars>>

\* reset(): set(initialState), on a store that holds history only.
StoreReset ==
  /\ history' = <<>>
  /\ historyIndex' = -1
  /\ ret' = None
  /\ lastOp' = "reset"
  /\ pushed' = <<>>
  /\ consecutive' = TRUE
  /\ branches' = 0
  /\ prev' = Observed
  /\ UNCHANGED sessionVars

StoreNext == StorePush \/ StoreUndo \/ StoreRedo \/ StoreReset

SpecStore == Init /\ [][StoreNext]_vars

\* ===================================================== session machine
\* Which components are rendered (BackgroundRemover's JSX conditions).
MountedEM == isEditModalOpen /\ originalImage # 0 /\ maskCanvas # None
MountedRM == MountedEM /\ isRefineModalOpen
MountedEV == viewState = "editing" /\ originalImage # 0 /\ maskCanvas # None
ResultsVisible ==
  /\ viewState = "result" /\ originalImage # 0 /\ maskCanvas # None
  /\ ~isEditModalOpen

\* Variable groups used in the frame conditions.
histVars == <<history, historyIndex, pushed>>
imgVars == <<originalImage, maskCanvas>>
editVars == <<isEditModalOpen, hasUnsavedEdits, editState>>
refineVars == <<isRefineModalOpen, preRefineMaskSnapshot, refineEdgesState>>
uploadVars == <<viewState, jobs, uploads>>

\* What every session step records about itself.
Obs(op) ==
  /\ lastOp' = op
  /\ ret' = None
  /\ lastRestore' = None
  /\ UNCHANGED <<branches, prev, lib, cap>>

\* A restoration whose RefineEdgesModal instance has unmounted can no longer
\* update that instance's state.
Orphaned(rs) == [k \in 1..Len(rs) |-> [rs[k] EXCEPT !.live = FALSE]]

RmNow == [hasSessionEdits |-> hasSessionEdits, rmConfirm |-> rmConfirm,
          pendingAction |-> pendingAction]
RmInitial == [hasSessionEdits |-> FALSE, rmConfirm |-> FALSE,
              pendingAction |-> None]

\* Component state after a step: the given values while the component stays
\* mounted, the useState/useRef initial values once it has unmounted.
ComponentsOf(em, rm, rcv, evv, tch, rs, ds, t) ==
  /\ emConfirm' = IF MountedEM' THEN em ELSE FALSE
  /\ dragState' = IF MountedEM' THEN ds ELSE dragInitial
  /\ tally' = t
  /\ hasSessionEdits' = IF MountedRM' THEN rm.hasSessionEdits ELSE FALSE
  /\ rmConfirm' = IF MountedRM' THEN rm.rmConfirm ELSE FALSE
  /\ pendingAction' = IF MountedRM' THEN rm.pendingAction ELSE None
  /\ rc' = IF MountedRM' THEN rcv ELSE rcInitial
  /\ ev' = IF MountedEV' THEN evv ELSE evInitial
  /\ touches' = IF MountedRM' \/ MountedEV' THEN tch ELSE 0
  /\ gesture' = IF touches' = 0 THEN 0
                ELSE IF touches = 0 THEN touches'
                ELSE gesture
  /\ baseline' =
       [editor |-> IF ~isEditModalOpen' THEN None
                   ELSE IF ~isEditModalOpen THEN maskCanvas'.px
                   ELSE baseline.editor,
        refine |-> IF ~isRefineModalOpen' THEN None
                   ELSE IF ~isRefineModalOpen THEN maskCanvas'.px
                   ELSE baseline.refine]
  /\ restores' = IF MountedRM /\ ~MountedRM' THEN Orphaned(rs) ELSE rs

\* A step of a handler outside EditPreview and the rotate buttons: the drag
\* state stays, and the tally of clicks and drags restarts when the step
\* leaves the edit state at its defaults.
Components(em, rm, rcv, evv, tch, rs) ==
  ComponentsOf(em, rm, rcv, evv, tch, rs, dragState,
               IF editState' = editInitialState THEN NoTally ELSE tally)

KeepComponents == Components(emConfirm, RmNow, rc, ev, touches, restores)

\* store.pushHistory(snapshot), logged.
Push(s) ==
  LET r == pushHistory(history, historyIndex, s)
  IN /\ history' = r.history
     /\ historyIndex' = r.historyIndex
     /\ pushed' = Append(pushed, s)

\* -------------------------------------------- BackgroundRemover: upload
\* handleImageSelect up to img.src = objectUrl (UploadZone is shown in the
\* upload view only).
SelectImage ==
  /\ viewState = "upload"
  /\ Len(uploads) < cap.uploads
  /\ \E size \in ImageSizes(cap.sizes) : uploads' = Append(uploads, size)
  /\ jobs' = jobs \cup {[id |-> Len(uploads) + 1, stage |-> "loading"]}
  /\ Obs("SelectImage")
  /\ UNCHANGED <<histVars, imgVars, brushMode, editVars, refineVars,
                 viewState, strokes, consecutive>>
  /\ KeepComponents

\* img.onload up to the await of removeBackground.
ImageLoaded ==
  \E j \in jobs :
    /\ j.stage = "loading"
    /\ originalImage' = j.id
    /\ viewState' = "processing"
    /\ jobs' = (jobs \ {j}) \cup {[id |-> j.id, stage |-> "processing"]}
    /\ Obs("ImageLoaded")
    /\ UNCHANGED <<histVars, maskCanvas, brushMode, editVars, refineVars,
                   uploads, strokes, consecutive>>
    /\ KeepComponents

\* img.onerror.
ImageError ==
  \E j \in jobs :
    /\ j.stage = "loading"
    /\ viewState' = "upload"
    /\ jobs' = jobs \ {j}
    /\ Obs("ImageError")
    /\ UNCHANGED <<histVars, imgVars, brushMode, editVars, refineVars,
                   uploads, strokes, consecutive>>
    /\ KeepComponents

\* removeBackground(img) resolved with rawImageToCanvas(mask,
\* img.naturalWidth, img.naturalHeight): setMaskCanvas, pushHistory of the
\* initial mask, result view.
ProcessingDone ==
  \E j \in jobs, m \in SegMasks, res \in MaskResolutions :
    /\ j.stage = "processing"
    /\ maskCanvas' = rawImageToCanvas(j.id,
                                      [data |-> m, width |-> res.width,
                                       height |-> res.height],
                                      uploads[j.id].naturalWidth,
                                      uploads[j.id].naturalHeight)
    /\ Push(saveMaskSnapshot(m))
    /\ viewState' = "result"
    /\ jobs' = jobs \ {j}
    /\ Obs("ProcessingDone")
    /\ UNCHANGED <<originalImage, brushMode, editVars, refineVars, uploads,
                   strokes, consecutive>>
    /\ KeepComponents

\* removeBackground rejected: the catch branch.
ProcessingFailed ==
  \E j \in jobs :
    /\ j.stage = "processing"
    /\ viewState' = "upload"
    /\ jobs' = jobs \ {j}
    /\ Obs("ProcessingFailed")
    /\ UNCHANGED <<histVars, imgVars, brushMode, editVars, refineVars,
                   uploads, strokes, consecutive>>
    /\ KeepComponents

\* handleReset: store.reset() and back to the upload view.
HandleReset ==
  /\ ResultsVisible \/ MountedEV
  /\ history' = <<>>
  /\ historyIndex' = -1
  /\ pushed' = <<>>
  /\ originalImage' = 0
  /\ maskCanvas' = None
  /\ brushMode' = "erase"
  /\ isEditModalOpen' = FALSE
  /\ hasUnsavedEdits' = FALSE
  /\ editState' = editInitialState
  /\ isRefineModalOpen' = FALSE
  /\ preRefineMaskSnapshot' = None
  /\ refineEdgesState' = refineEdgesInitialState
  /\ viewState' = "upload"
  /\ strokes' = 0
  /\ consecutive' = TRUE
  /\ Obs("HandleReset")
  /\ UNCHANGED <<jobs, uploads>>
  /\ KeepComponents

\* handleEdit: openEditModal; EditModal renders EditPreview, whose crop
\* effect runs on mount.
HandleEdit ==
  /\ ResultsVisible
  /\ isEditModalOpen' = TRUE
  /\ editState' = mountEffect(editState, uploads[originalImage])
  /\ hasUnsavedEdits' = (hasUnsavedEdits \/ mountStores(editState))
  /\ Obs("HandleEdit")
  /\ UNCHANGED <<histVars, imgVars, brushMode, refineVars, uploadVars,
                 strokes, consecutive>>
  /\ KeepComponents

\* The viewState === 'editing' branch renders EditingView.
EnterEditing ==
  /\ ResultsVisible
  /\ viewState' = "editing"
  /\ Obs("EnterEditing")
  /\ UNCHANGED <<histVars, imgVars, brushMode, editVars, refineVars, jobs,
                 uploads, strokes, consecutive>>
  /\ KeepComponents

\* handleBackToResult (EditingView's onBack).
HandleBackToResult ==
  /\ MountedEV
  /\ viewState' = "result"
  /\ Obs("HandleBackToResult")
  /\ UNCHANGED <<histVars, imgVars, brushMode, editVars, refineVars, jobs,
                 uploads, strokes, consecutive>>
  /\ KeepComponents

\* ------------------------------------------------------------ EditModal
\* The main editor's controls respond while no dialog or refine modal
\* covers them.
EditControls == MountedEM /\ ~isRefineModalOpen /\ ~emConfirm

\* handleOpenRefineEdges: openRefineModal(saveMaskSnapshot(maskCanvas)).
HandleOpenRefineEdges ==
  /\ EditControls
  /\ isRefineModalOpen' = TRUE
  /\ preRefineMaskSnapshot' = saveMaskSnapshot(maskCanvas.px)
  /\ refineEdgesState' = refineEdgesInitialState
  /\ Obs("HandleOpenRefineEdges")
  /\ UNCHANGED <<histVars, imgVars, brushMode, editVars, uploadVars,
                 strokes, consecutive>>
  /\ KeepComponents

\* store.setEditState(partial) called with one of the partial states explored.
SetEditState ==
  /\ EditControls
  /\ \E partial \in cap.edits : editState' = setEditState(editState, partial)
  /\ hasUnsavedEdits' = TRUE
  /\ Obs("SetEditState")
  /\ UNCHANGED <<histVars, imgVars, brushMode, isEditModalOpen, refineVars,
                 uploadVars, strokes, consecutive>>
  /\ KeepComponents

\* handleApply: setHasUnsavedEdits(false); onApply() closes the modal.
HandleApply ==
  /\ EditControls
  /\ hasUnsavedEdits' = FALSE
  /\ isEditModalOpen' = FALSE
  /\ Obs("HandleApply")
  /\ UNCHANGED <<histVars, imgVars, brushMode, editState, refineVars,
                 uploadVars, strokes, consecutive>>
  /\ KeepComponents

\* handleExit: the confirm dialog when there are unsaved edits, else
\* handleClose (resetEditState, closeEditModal).
HandleExit ==
  /\ EditControls
  /\ IF hasUnsavedEdits
     THEN /\ UNCHANGED editVars
          /\ Obs("HandleExit")
          /\ UNCHANGED <<histVars, imgVars, brushMode, refineVars,
                         uploadVars, strokes, consecutive>>
          /\ Components(TRUE, RmNow, rc, ev, touches, restores)
     ELSE /\ editState' = editInitialState
          /\ hasUnsavedEdits' = FALSE
          /\ isEditModalOpen' = FALSE
          /\ Obs("HandleExit")
          /\ UNCHANGED <<histVars, imgVars, brushMode, refineVars,
                         uploadVars, strokes, consecutive>>
          /\ KeepComponents

\* EditModal.handleConfirmDiscard.
EmConfirmDiscard ==
  /\ MountedEM /\ emConfirm /\ ~isRefineModalOpen
  /\ editState' = editInitialState
  /\ hasUnsavedEdits' = FALSE
  /\ isEditModalOpen' = FALSE
  /\ Obs("EmConfirmDiscard")
  /\ UNCHANGED <<histVars, imgVars, brushMode, refineVars, uploadVars,
                 strokes, consecutive>>
  /\ Components(FALSE, RmNow, rc, ev, touches, restores)

\* EditModal's Keep Editing button: setShowConfirmDialog(false).
EmKeepEditing ==
  /\ MountedEM /\ emConfirm /\ ~isRefineModalOpen
  /\ Obs("EmKeepEditing")
  /\ UNCHANGED <<histVars, imgVars, brushMode, editVars, refineVars,
                 uploadVars, strokes, consecutive>>
  /\ Components(FALSE, RmNow, rc, ev, touches, restores)

\* ----------------------------------------------------- RefineEdgesModal
RefineControls == MountedRM /\ ~rmConfirm

\* The restoreMaskSnapshot call a handler leaves pending: the canvas and
\* snapshot it was given, the handler, and what the log and the refine
\* session's baseline held at the call.  want is the snapshot's content with
\* the segments drawn on that canvas since the call laid over it.
Restoration(kind, snapshot) ==
  [canvas |-> maskCanvas.id, snap |-> snapshot, kind |-> kind,
   pa |-> pendingAction, live |-> TRUE,
   n |-> Len(pushed), straight |-> consecutive, opened |-> baseline.refine,
   want |-> snapshot.png]

\* The pending restorations after drawBrushLine drew a segment on the live
\* mask canvas.
Overlaid(rs, cov, mode) ==
  [k \in 1..Len(rs) |->
     IF rs[k].canvas = maskCanvas.id
     THEN [rs[k] EXCEPT !.want = drawBrushLine(@, cov, mode)]
     ELSE rs[k]]

\* closeRefineModal().
CloseRefine ==
  /\ isRefineModalOpen' = FALSE
  /\ refineEdgesState' = refineEdgesInitialState
  /\ UNCHANGED preRefineMaskSnapshot

\* handleFinishRefining, then EditModal.handleRefineFinish: the new
\* previewVersion is EditPreview's key, so the preview is mounted afresh and
\* its crop effect runs.
HandleFinishRefining ==
  /\ RefineControls
  /\ IF hasSessionEdits THEN Push(saveMaskSnapshot(maskCanvas.px))
                        ELSE UNCHANGED histVars
  /\ CloseRefine
  /\ hasUnsavedEdits' = TRUE
  /\ editState' = mountEffect(editState, uploads[originalImage])
  /\ Obs("HandleFinishRefining")
  /\ UNCHANGED <<imgVars, brushMode, isEditModalOpen, uploadVars,
                 strokes, consecutive>>
  /\ ComponentsOf(emConfirm, RmNow, rc, ev, touches, restores, dragInitial,
                  IF editState' = editInitialState THEN NoTally ELSE tally)

\* handleApplyAndDone, then EditModal.handleRefineApplyAndDone and
\* BackgroundRemover.handleEditApply.
HandleApplyAndDone ==
  /\ RefineControls
  /\ IF hasSessionEdits THEN Push(saveMaskSnapshot(maskCanvas.px))
                        ELSE UNCHANGED histVars
  /\ CloseRefine
  /\ hasUnsavedEdits' = FALSE
  /\ isEditModalOpen' = FALSE
  /\ Obs("HandleApplyAndDone")
  /\ UNCHANGED <<imgVars, brushMode, editState, uploadVars, strokes,
                 consecutive>>
  /\ KeepComponents

\* handleExitEditor: the discard dialog when the session has edits, else
\* closeRefineModal and EditModal.handleRefineExitEditor.
HandleExitEditor ==
  /\ RefineControls
  /\ IF hasSessionEdits
     THEN /\ UNCHANGED <<editVars, refineVars>>
          /\ Obs("HandleExitEditor")
          /\ UNCHANGED <<histVars, imgVars, brushMode, uploadVars, strokes,
                         consecutive>>
          /\ Components(emConfirm,
                        [RmNow EXCEPT !.rmConfirm = TRUE,
                                      !.pendingAction = "exit"],
                        rc, ev, touches, restores)
     ELSE /\ CloseRefine
          /\ editState' = editInitialState
          /\ hasUnsavedEdits' = FALSE
          /\ isEditModalOpen' = FALSE
          /\ Obs("HandleExitEditor")
          /\ UNCHANGED <<histVars, imgVars, brushMode, uploadVars, strokes,
                         consecutive>>
          /\ KeepComponents

\* RefineEdgesModal.handleConfirmDiscard up to its await.
RmConfirmDiscard ==
  /\ MountedRM /\ rmConfirm
  /\ preRefineMaskSnapshot # None
  /\ Len(restores) < cap.pending
  /\ Obs("RmConfirmDiscard")
  /\ UNCHANGED <<histVars, imgVars, brushMode, editVars, refineVars,
                 uploadVars, strokes, consecutive>>
  /\ Components(emConfirm, RmNow, rc, ev, touches,
                Append(restores,
                       Restoration("discard", preRefineMaskSnapshot)))

\* The discard dialog's Keep Editing button.
RmKeepEditing ==
  /\ MountedRM /\ rmConfirm
  /\ Obs("RmKeepEditing")
  /\ UNCHANGED <<histVars, imgVars, brushMode, editVars, refineVars,
                 uploadVars, strokes, consecutive>>
  /\ Components(emConfirm, [RmNow EXCEPT !.rmConfirm = FALSE], rc, ev,
                touches, restores)

\* handleResetAllEdits up to its await.
HandleResetAllEdits ==
  /\ RefineControls
  /\ preRefineMaskSnapshot # None
  /\ Len(restores) < cap.pending
  /\ Obs("HandleResetAllEdits")
  /\ UNCHANGED <<histVars, imgVars, brushMode, editVars, refineVars,
                 uploadVars, strokes, consecutive>>
  /\ Components(emConfirm, RmNow, rc, ev, touches,
                Append(restores,
                       Restoration("resetAll", preRefineMaskSnapshot)))

\* A sequence without its k-th entry.
RemoveAt(s, k) == SubSeq(s, 1, k - 1) \o SubSeq(s, k + 1, Len(s))

\* img.onload of a pending restoreMaskSnapshot, followed by the code after
\* the handler's await.  The canvas drawn on is the one the handler was
\* given, which the store may have replaced or dropped since.
CompleteRestore ==
  \E k \in 1..Len(restores) :
    LET r == restores[k]
        rest == RemoveAt(restores, k)
    IN /\ maskCanvas' =
            IF maskCanvas # None /\ maskCanvas.id = r.canvas
            THEN [maskCanvas EXCEPT
                    !.px = restoreMaskSnapshot(maskCanvas.px, r.snap)]
            ELSE maskCanvas
       /\ lastOp' = "CompleteRestore"
       /\ ret' = None
       /\ lastRestore' = r
       /\ UNCHANGED <<branches, prev, lib, cap, histVars,
                      originalImage,
                      brushMode, uploadVars, strokes, consecutive>>
       /\ IF r.kind = "discard"
          THEN /\ CloseRefine
               /\ IF r.pa = "exit"
                  THEN /\ editState' = editInitialState
                       /\ hasUnsavedEdits' = FALSE
                       /\ isEditModalOpen' = FALSE
                  ELSE UNCHANGED editVars
               /\ Components(emConfirm,
                             IF r.live
                             THEN [RmNow EXCEPT !.rmConfirm = FALSE]
                             ELSE RmNow,
                             rc, ev, touches, rest)
          ELSE /\ UNCHANGED <<editVars, refineVars>>
               /\ Components(emConfirm,
                             IF r.kind = "resetAll" /\ r.live
                             THEN [RmNow EXCEPT !.hasSessionEdits = FALSE]
                             ELSE RmNow,
                             rc, ev, touches, rest)

\* img.onerror of a pending restoreMaskSnapshot (or its getContext returning
\* null): the promise rejects, the code after the handler's await does not
\* run and no handler catches the rejection.
FailRestore ==
  \E k \in 1..Len(restores) :
    /\ lastOp' = "FailRestore"
    /\ ret' = None
    /\ lastRestore' = restores[k]
    /\ UNCHANGED <<branches, prev, lib, cap, histVars, imgVars, brushMode,
                   editVars, refineVars, uploadVars, strokes, consecutive>>
    /\ Components(emConfirm, RmNow, rc, ev, touches, RemoveAt(restores, k))

\* ---------------------------------------------------- RefineEdgesCanvas
\* The canvas receives pointer events while no dialog covers it; the Space
\* key listeners are on the window.
RefineCanvas == MountedRM /\ ~rmConfirm

\* handleMouseMove / handleTouchMove drawing on every move, stroke or not.
rcDraws_onEveryMove(refs) == TRUE

\* handleMouseMove / handleTouchMove: draw only while a stroke is in
\* progress and a last point is recorded.
rcDraws(refs) == refs.isDrawing /\ refs.lastPos

\* The frame of a canvas handler that touches neither modal nor upload state.
CanvasFrame ==
  UNCHANGED <<originalImage, editVars, isRefineModalOpen,
              preRefineMaskSnapshot, uploadVars, consecutive>>

\* Stroke end in RefineEdgesCanvas with the push left out.
rcStrokeEnd_noPush(op, refs, tch) ==
  /\ UNCHANGED <<histVars, maskCanvas, brushMode, refineEdgesState>>
  /\ strokes' = strokes + 1
  /\ Obs(op)
  /\ CanvasFrame
  /\ Components(emConfirm, [RmNow EXCEPT !.hasSessionEdits = TRUE],
                [refs EXCEPT !.isDrawing = FALSE, !.lastPos = FALSE],
                ev, tch, restores)

\* Stroke end in RefineEdgesCanvas: pushHistory(saveMaskSnapshot(maskCanvas)),
\* onEditMade(), isDrawing = false, lastPos = null.
rcStrokeEnd(op, refs, tch) ==
  /\ Push(saveMaskSnapshot(maskCanvas.px))
  /\ UNCHANGED <<maskCanvas, brushMode, refineEdgesState>>
  /\ strokes' = strokes + 1
  /\ Obs(op)
  /\ CanvasFrame
  /\ Components(emConfirm, [RmNow EXCEPT !.hasSessionEdits = TRUE],
                [refs EXCEPT !.isDrawing = FALSE, !.lastPos = FALSE],
                ev, tch, restores)

\* A RefineEdgesCanvas handler that only updates refs and refine view state.
rcStep(op, refs, tch, view) ==
  /\ refineEdgesState' = view
  /\ UNCHANGED <<histVars, maskCanvas, brushMode, strokes>>
  /\ Obs(op)
  /\ CanvasFrame
  /\ Components(emConfirm, RmNow, refs, ev, tch, restores)

\* A RefineEdgesCanvas move that draws a segment on the mask.
rcDraw(op, cov) ==
  /\ maskCanvas' = [maskCanvas EXCEPT
                      !.px = drawBrushLine(maskCanvas.px, cov, brushMode)]
  /\ UNCHANGED <<histVars, brushMode, refineEdgesState, strokes>>
  /\ Obs(op)
  /\ CanvasFrame
  /\ Components(emConfirm, RmNow, [rc EXCEPT !.lastPos = TRUE], ev, touches,
                Overlaid(restores, cov, brushMode))

\* keydown of Space (not a repeat): setRefineSpacePressed(true).
RcKeyDownSpace ==
  /\ MountedRM
  /\ rcStep("view", rc, touches,
            [refineEdgesState EXCEPT !.isSpacePressed = TRUE])

\* keyup of Space: setRefineSpacePressed(false) and the pan ends.
RcKeyUpSpace ==
  /\ MountedRM
  /\ rcStep("view",
            [rc EXCEPT !.isPanning = FALSE, !.lastPanPos = FALSE], touches,
            [refineEdgesState EXCEPT !.isSpacePressed = FALSE])

\* handleMouseDown: pan when Space is held, else start a stroke.
RcMouseDown ==
  /\ RefineCanvas
  /\ IF refineEdgesState.isSpacePressed
     THEN rcStep("down",
                 [rc EXCEPT !.isPanning = TRUE, !.lastPanPos = TRUE],
                 touches, refineEdgesState)
     ELSE /\ strokes < cap.strokes
          /\ rcStep("down",
                    [rc EXCEPT !.isDrawing = TRUE, !.lastPos = TRUE],
                    touches, refineEdgesState)

\* handleMouseMove: pan, or draw, or nothing.
RcMouseMove ==
  /\ RefineCanvas
  /\ IF rc.isPanning /\ rc.lastPanPos
     THEN \E d \in PanDeltas :
            /\ refineEdgesState.pan + d \in (-cap.pan)..cap.pan
            /\ rcStep("move", rc, touches,
                      [refineEdgesState EXCEPT !.pan = @ + d])
     ELSE IF ~rcDraws(rc)
     THEN rcStep("move", rc, touches, refineEdgesState)
     ELSE \E cov \in Covers : rcDraw("move", cov)

\* handleMouseUp: ends the pan if one is active, else ends the stroke.
RcMouseUp ==
  /\ RefineCanvas
  /\ IF rc.isPanning
     THEN rcStep("up",
                 [rc EXCEPT !.isPanning = FALSE, !.lastPanPos = FALSE],
                 touches, refineEdgesState)
     ELSE IF rc.isDrawing
     THEN rcStrokeEnd("up", rc, touches)
     ELSE rcStep("up",
                 [rc EXCEPT !.isDrawing = FALSE, !.lastPos = FALSE],
                 touches, refineEdgesState)

\* handleMouseLeave: ends the stroke and the pan.
RcMouseLeave ==
  /\ RefineCanvas
  /\ LET refs == [rc EXCEPT !.isPanning = FALSE, !.lastPanPos = FALSE]
     IN IF rc.isDrawing
        THEN rcStrokeEnd("leave", refs, touches)
        ELSE rcStep("leave",
                    [refs EXCEPT !.isDrawing = FALSE, !.lastPos = FALSE],
                    touches, refineEdgesState)

\* handleTouchStart, after one or more contacts landed together: two
\* contacts on the screen start a pinch/pan, one starts a stroke.
RcTouchStart ==
  /\ RefineCanvas
  /\ \E landed \in 1..cap.landing :
     LET n == touches + landed
     IN IF n > cap.touches THEN FALSE
        ELSE IF n = 2
        THEN rcStep("down",
                    [rc EXCEPT !.touchStartDistance = TRUE,
                               !.touchStartZoom = refineEdgesState.zoom,
                               !.lastPanPos = TRUE],
                    n, refineEdgesState)
        ELSE IF n = 1
        THEN /\ strokes < cap.strokes
             /\ rcStep("down",
                       [rc EXCEPT !.isDrawing = TRUE, !.lastPos = TRUE],
                       n, refineEdgesState)
        ELSE rcStep("down", rc, n, refineEdgesState)

\* handleTouchMove: pinch zoom and two-finger pan, or draw, or nothing.
RcTouchMove ==
  /\ RefineCanvas
  /\ touches >= 1
  /\ IF touches = 2 /\ rc.touchStartDistance
     THEN \E scale \in PinchScales, d \in PanDeltas :
            LET z == clampRefineZoom(clampRefineZoom(
                       pinchZoom(rc.touchStartZoom, scale)))
            IN /\ z <= cap.zoom
               /\ IF rc.lastPanPos
                  THEN /\ refineEdgesState.pan + d \in (-cap.pan)..cap.pan
                       /\ rcStep("move", rc, touches,
                                 [refineEdgesState EXCEPT !.zoom = z,
                                                          !.pan = @ + d])
                  ELSE rcStep("move", rc, touches,
                              [refineEdgesState EXCEPT !.zoom = z])
     ELSE IF touches = 1 /\ rcDraws(rc)
     THEN \E cov \in Covers : rcDraw("move", cov)
     ELSE rcStep("move", rc, touches, refineEdgesState)

\* handleTouchEnd, after one or more contacts lifted together: fewer than
\* two contacts left ends the pinch, none left ends the stroke.
RcTouchEnd ==
  /\ RefineCanvas
  /\ \E lifted \in 1..touches :
     LET n == touches - lifted
         refs == IF n < 2
                 THEN [rc EXCEPT !.touchStartDistance = FALSE,
                                 !.lastPanPos = FALSE]
                 ELSE rc
     IN IF n = 0 /\ rc.isDrawing
        THEN rcStrokeEnd("up", refs, n)
        ELSE rcStep("up", refs, n, refineEdgesState)

\* handleWheel with Ctrl/Meta: setRefineZoom(zoom + delta).
RcWheel ==
  /\ RefineCanvas
  /\ \E delta \in WheelDeltas :
       /\ clampRefineZoom(refineEdgesState.zoom + delta) <= cap.zoom
       /\ rcStep("view", rc, touches,
                 [refineEdgesState EXCEPT
                    !.zoom = clampRefineZoom(refineEdgesState.zoom + delta)])

\* RefineEdgesControls.handleZoomChange: setRefineZoom(value).
RcZoomSlider ==
  /\ RefineControls
  /\ \E z \in SliderZooms :
       /\ clampRefineZoom(z) <= cap.zoom
       /\ rcStep("view", rc, touches,
                 [refineEdgesState EXCEPT !.zoom = clampRefineZoom(z)])

\* RefineEdgesControls.handleResetView: resetRefineEdgesState().
RcResetView ==
  /\ RefineControls
  /\ rcStep("view", rc, touches, refineEdgesInitialState)

\* setBrushMode from the refine controls or the brush panel.
SetBrushMode ==
  /\ RefineControls \/ MountedEV
  /\ \E m \in {"erase", "restore"} : brushMode' = m
  /\ Obs("view")
  /\ UNCHANGED <<histVars, imgVars, editVars, refineVars, uploadVars,
                 strokes, consecutive>>
  /\ KeepComponents

\* ---------------------------------------------------------- EditingView
\* An EditingView handler that only updates the refs.
evStep(op, refs, tch) ==
  /\ UNCHANGED <<histVars, maskCanvas, brushMode, refineEdgesState, strokes>>
  /\ Obs(op)
  /\ CanvasFrame
  /\ Components(emConfirm, RmNow, rc, refs, tch, restores)

\* handleMouseUp / handleTouchEnd: push when a stroke was in progress, then
\* isDrawing = false, lastPos = null.
evEnd(op, tch) ==
  IF ev.isDrawing
  THEN /\ Push(saveMaskSnapshot(maskCanvas.px))
       /\ UNCHANGED <<maskCanvas, brushMode, refineEdgesState>>
       /\ strokes' = strokes + 1
       /\ Obs(op)
       /\ CanvasFrame
       /\ Components(emConfirm, RmNow, rc, evInitial, tch, restores)
  ELSE evStep(op, evInitial, tch)

\* handleMouseMove / handleTouchMove: draw while a stroke is in progress.
evMove(op) ==
  IF ~ev.isDrawing \/ ~ev.lastPos
  THEN evStep(op, ev, touches)
  ELSE \E cov \in Covers :
         /\ maskCanvas' = [maskCanvas EXCEPT
                             !.px = drawBrushLine(maskCanvas.px, cov,
                                                  brushMode)]
         /\ UNCHANGED <<histVars, brushMode, refineEdgesState, strokes>>
         /\ Obs(op)
         /\ CanvasFrame
         /\ Components(emConfirm, RmNow, rc, [ev EXCEPT !.lastPos = TRUE],
                       touches, Overlaid(restores, cov, brushMode))

EvMouseDown ==
  /\ MountedEV
  /\ strokes < cap.strokes
  /\ evStep("down", [isDrawing |-> TRUE, lastPos |-> TRUE], touches)

EvMouseMove == MountedEV /\ evMove("move")

EvMouseUp == MountedEV /\ evEnd("up", touches)

\* onMouseLeave={handleMouseUp}.
EvMouseLeave == MountedEV /\ evEnd("leave", touches)

EvTouchStart ==
  /\ MountedEV
  /\ strokes < cap.strokes
  /\ \E landed \in 1..cap.landing :
       /\ touches + landed <= cap.touches
       /\ evStep("down", [isDrawing |-> TRUE, lastPos |-> TRUE],
                 touches + landed)

EvTouchMove == MountedEV /\ touches >= 1 /\ evMove("move")

EvTouchEnd ==
  /\ MountedEV
  /\ \E lifted \in 1..touches : evEnd("up", touches - lifted)

\* handleUndo / handleRedo up to the await: the store call, and the
\* restoration when it returned a snapshot.
evHistory(op, r) ==
  /\ historyIndex' = r.historyIndex
  /\ lastOp' = op
  /\ ret' = r.ret
  /\ lastRestore' = None
  /\ consecutive' = FALSE
  /\ UNCHANGED <<branches, prev, lib, cap, history, pushed,
                 imgVars, brushMode,
                 editVars, refineVars, uploadVars, strokes>>
  /\ Components(emConfirm, RmNow, rc, ev, touches,
                IF r.ret # None
                THEN Append(restores, Restoration(op, r.ret))
                ELSE restores)

\* handleUndo (the Undo button is disabled unless historyIndex > 0).
EvUndo ==
  /\ MountedEV
  /\ historyIndex > 0
  /\ Len(restores) < cap.pending
  /\ evHistory("EvUndo", undo(history, historyIndex))

\* handleRedo (the Redo button is disabled at the newest entry).
EvRedo ==
  /\ MountedEV
  /\ historyIndex < Len(history) - 1
  /\ Len(restores) < cap.pending
  /\ evHistory("EvRedo", redo(history, historyIndex))

\* --------------------------------------------------------- specification
Upload == SelectImage \/ ImageLoaded \/ ImageError \/ ProcessingDone
            \/ ProcessingFailed \/ HandleReset
Views == HandleEdit \/ EnterEditing \/ HandleBackToResult
Editor == HandleOpenRefineEdges \/ SetEditState \/ HandleApply \/ HandleExit
            \/ EmConfirmDiscard \/ EmKeepEditing
Refine == HandleFinishRefining \/ HandleApplyAndDone \/ HandleExitEditor
            \/ RmConfirmDiscard \/ RmKeepEditing \/ HandleResetAllEdits
            \/ CompleteRestore
RefineCanvasInput == RcKeyDownSpace \/ RcKeyUpSpace \/ RcMouseDown
            \/ RcMouseMove \/ RcMouseUp \/ RcMouseLeave \/ RcTouchStart
            \/ RcTouchMove \/ RcTouchEnd \/ RcWheel \/ RcZoomSlider
            \/ RcResetView \/ SetBrushMode
EditingInput == EvMouseDown \/ EvMouseMove \/ EvMouseUp \/ EvMouseLeave
            \/ EvTouchStart \/ EvTouchMove \/ EvTouchEnd \/ EvUndo \/ EvRedo

Next == Upload \/ Views \/ Editor \/ Refine \/ RefineCanvasInput
          \/ EditingInput

Spec == Init /\ [][Next]_vars

\* ===================================================== claims C1 .. C5
\* The snapshot at the store's current index (None on an empty history).
Current == IF historyIndex >= 0 /\ historyIndex < Len(history)
           THEN history[historyIndex + 1] ELSE None

\* C1: the history never holds more than 20 snapshots; a push that would
\* make a 21st entry drops exactly the oldest one; and while only pushes have
\* been made since the history was empty, the history is the last 20 pushed
\* snapshots in push order with the index on the most recent one.
C1_Bounded ==
  /\ [](/\ Len(history) <= 20
        /\ consecutive =>
             /\ history = LastN(pushed, 20)
             /\ historyIndex = Len(history) - 1)
  /\ [][(lastOp' = "push" /\ Len(history) = 20 /\ historyIndex = 19) =>
          history' = Append(Tail(history), pushed'[Len(pushed')])]_vars

\* More than 20 consecutive pushes were made and the oldest were evicted.
C1_Witness ==
  /\ lastOp = "push"
  /\ consecutive
  /\ Len(pushed) > 20
  /\ history[1] = pushed[Len(pushed) - 19]

\* C2: historyIndex is -1 exactly when the history is empty and otherwise
\* lies in 0 .. Len(history) - 1.
C2_IndexInRange ==
  /\ (historyIndex = -1) <=> (history = <<>>)
  /\ history # <<>> => (0 <= historyIndex /\ historyIndex <= Len(history) - 1)

\* An undo has moved the index down to the oldest of several entries.
C2_Witness ==
  /\ lastOp = "undo"
  /\ ret # None
  /\ historyIndex = 0
  /\ Len(history) >= 2

\* C3: a push at index i leaves entries 0..i followed by the new snapshot,
\* dropping the oldest entry only when that makes more than 20, and puts the
\* index on the last entry; a redo right after a push returns none.
C3_PushTruncates ==
  [][/\ lastOp' = "push" =>
          LET s == pushed'[Len(pushed')]
              full == SubSeq(history, 1, historyIndex + 1) \o <<s>>
          IN /\ history' = IF Len(full) > 20 THEN Tail(full) ELSE full
             /\ historyIndex' = Len(history') - 1
     /\ (lastOp = "push" /\ lastOp' = "redo") =>
          /\ ret' = None
          /\ UNCHANGED <<history, historyIndex>>]_vars

\* A push made after an undo has discarded the redo branch.
C3_Witness ==
  /\ lastOp = "push"
  /\ prev.op = "undo"
  /\ prev.ret # None
  /\ Len(history) < Len(pushed)
  /\ Len(pushed) <= 20

\* C4: a redo right after a successful undo puts the index back and returns
\* the snapshot that was current before the undo; every undo and redo that
\* returns a snapshot returns the one at the new index, and neither changes
\* the history, so repeated undo/redo cycles return the same snapshots.
C4_UndoRedoRoundTrip ==
  [][/\ (lastOp = "undo" /\ ret # None /\ lastOp' = "redo") =>
          /\ historyIndex' = prev.idx
          /\ ret' = history[prev.idx + 1]
     /\ (lastOp' \in {"undo", "redo"}) =>
          /\ history' = history
          /\ ret' # None => ret' = history[historyIndex' + 1]]_vars

\* A redo has just undone a successful undo.
C4_Witness ==
  /\ lastOp = "redo"
  /\ ret # None
  /\ prev.op = "undo"
  /\ prev.ret # None

\* C5: undo at index <= 0 and redo at the last index return none and leave
\* history and index unchanged; every call returns none or a stored snapshot.
C5_NoOpAtEnds ==
  [][/\ (lastOp' = "undo" /\ historyIndex <= 0) =>
          (ret' = None /\ UNCHANGED <<history, historyIndex>>)
     /\ (lastOp' = "redo" /\ historyIndex = Len(history) - 1) =>
          (ret' = None /\ UNCHANGED <<history, historyIndex>>)
     /\ (lastOp' \in {"undo", "redo"}) =>
          (ret' = None \/ \E k \in 1..Len(history) : ret' = history[k])]_vars

\* A redo at the newest of several entries was a no-op.
C5_Witness ==
  /\ lastOp = "redo"
  /\ ret = None
  /\ Len(history) >= 2
  /\ historyIndex = Len(history) - 1

\* ==================================================== claims C6 .. C10
\* A stroke is in progress on one of the two brush surfaces.
Stroking == rc.isDrawing \/ ev.isDrawing

\* The step just taken was a pointer or touch event on a brush surface.
PointerStep == lastOp' \in {"down", "move", "up", "leave"}

C7_LiveMaskIsCurrentEntry ==
  (/\ lastRestore # None
   /\ lastRestore.n = Len(pushed)
   /\ originalImage # 0
   /\ maskCanvas # None
   /\ maskCanvas.id = lastRestore.canvas
   /\ ~Stroking
   /\ restores = <<>>)
  => saveMaskSnapshot(maskCanvas.px) = Current

\* C8: a pointer or touch step that ends a stroke pushes exactly one snapshot,
\* that of the mask as the stroke left it; every other pointer or touch step
\* (moves, downs, an up or leave with no stroke in progress) pushes nothing;
\* a leave during a stroke always ends it, and so does a mouse up unless a
\* pan started during the stroke takes that up.
C8_OnePushPerStroke ==
  [][PointerStep =>
       /\ (Stroking /\ ~Stroking') =>
            /\ pushed' = Append(pushed, saveMaskSnapshot(maskCanvas.px))
            /\ history' = pushHistory(history, historyIndex,
                                      saveMaskSnapshot(maskCanvas.px)).history
            /\ maskCanvas' = maskCanvas
            /\ strokes' = strokes + 1
            /\ lastOp' \in {"up", "leave"}
       /\ ~(Stroking /\ ~Stroking') =>
            /\ pushed' = pushed
            /\ history' = history
            /\ historyIndex' = historyIndex
            /\ strokes' = strokes
       /\ (lastOp' = "leave" /\ Stroking) => ~Stroking'
       /\ (lastOp' = "up" /\ Stroking /\ ~rc.isPanning /\ touches' = 0)
            => ~Stroking'
  ]_vars

\* A stroke that changed the mask was ended by the pointer leaving the
\* surface: one push beyond the initial mask, holding the post-stroke mask.
C8_Witness ==
  /\ lastOp = "leave"
  /\ strokes = 1
  /\ Len(pushed) = 2
  /\ maskCanvas # None
  /\ pushed[2] = saveMaskSnapshot(maskCanvas.px)
  /\ pushed[2] # pushed[1]

\* C9 (refuted by the code): the snapshots pushed for an image never number
\* more than one plus the strokes ended on it.
C9_PushesBoundedByStrokes == Len(pushed) <= 1 + strokes

RowLen == 3            \* pixels in the row

Row == 0 .. RowLen - 1
Positions == 0 .. 2 * RowLen

\* Alpha values a segmentation mask holds: background, soft edge, subject.
Alphas == {0, 128, 255}

\* The brushSize and coordinate scale passed by the handlers.
BrushSizes == {1}
Scales == {1}

\* Coverage the rasteriser gives a pixel the stroke outline cuts through.
EdgeCoverage == 128

\* ctx.lineWidth = size * scale * 2: the stroke reaches size * scale pixels
\* from the axis, in half pixels.
strokeReach(size, scale) == (size * scale * 2)

\* Pixels wholly inside the stroked outline of the line from..to.
strokeInside(from, to, reach) ==
  LET lo == IF from <= to THEN from ELSE to
      hi == IF from <= to THEN to ELSE from
  IN {k \in Row : lo - reach <= 2 * k /\ 2 * k + 2 <= hi + reach}

\* Pixels the outline cuts through.
strokeEdge(from, to, reach) ==
  LET lo == IF from <= to THEN from ELSE to
      hi == IF from <= to THEN to ELSE from
  IN {k \in Row : /\ 2 * k + 2 > lo - reach
                  /\ 2 * k < hi + reach
                  /\ ~(lo - reach <= 2 * k /\ 2 * k + 2 <= hi + reach)}

\* One pixel composited with a source of the given coverage: destination-out
\* for erase, source-over with opaque white for restore.
composite(dst, coverage, mode) ==
  IF mode = "erase" THEN (dst * (255 - coverage)) \div 255
  ELSE coverage + (dst * (255 - coverage)) \div 255

\* drawBrushLine(maskCanvas, from, to, size, mode, scale).  A line whose end
\* points coincide is pruned from the path by the HTML canvas rules, while
\* some rasterisers draw its round cap: dot says which.
strokeLine(px, from, to, size, mode, scale, dot) ==
  LET reach == strokeReach(size, scale)
      solid == drawBrushLine(px, strokeInside(from, to, reach), mode)
  IN IF from = to /\ ~dot THEN px
     ELSE [k \in DOMAIN px |->
             IF k \in strokeEdge(from, to, reach)
             THEN composite(px[k], EdgeCoverage, mode)
             ELSE solid[k]]

\* A mask row as segmentation produced it, no call made yet.
InitBrush ==
  /\ initialState
  /\ cap = SessionCap
  /\ \E m \in [Row -> Alphas] :
       lib = [fn |-> "none", px |-> m, before |-> m]

\* One drawBrushLine call.
BrushSegment ==
  /\ lib.fn = "none"
  /\ \E from \in Positions, to \in Positions, size \in BrushSizes,
        scale \in Scales, mode \in {"erase", "restore"}, dot \in BOOLEAN :
       lib' = [fn |-> "drawBrushLine", before |-> lib.px,
               px |-> strokeLine(lib.px, from, to, size, mode, scale, dot),
               from |-> from, to |-> to, size |-> size, scale |-> scale,
               mode |-> mode]
  /\ UNCHANGED <<storeVars>>
  /\ UNCHANGED <<originalImage, maskCanvas, brushMode, isEditModalOpen,
                 hasUnsavedEdits, editState, isRefineModalOpen,
                 preRefineMaskSnapshot, refineEdgesState, viewState, jobs,
                 uploads, emConfirm, hasSessionEdits, rmConfirm,
                 pendingAction, rc, ev, touches, restores, lastRestore,
                 strokes, gesture, baseline, cap, dragState, tally>>

\* A restore call along the path an erase call has just taken, same size and
\* scale.
BrushRetrace ==
  /\ lib.fn = "drawBrushLine"
  /\ lib.mode = "erase"
  /\ \E dot \in BOOLEAN :
       lib' = [lib EXCEPT
                 !.fn = "retrace",
                 !.px = strokeLine(lib.px, lib.from, lib.to, lib.size,
                                   "restore", lib.scale, dot)]
  /\ UNCHANGED <<storeVars>>
  /\ UNCHANGED <<originalImage, maskCanvas, brushMode, isEditModalOpen,
                 hasUnsavedEdits, editState, isRefineModalOpen,
                 preRefineMaskSnapshot, refineEdgesState, viewState, jobs,
                 uploads, emConfirm, hasSessionEdits, rmConfirm,
                 pendingAction, rc, ev, touches, restores, lastRestore,
                 strokes, gesture, baseline, cap, dragState, tally>>

NextBrush == BrushSegment \/ BrushRetrace

SpecBrush == InitBrush /\ [][NextBrush]_vars

\* ------------------------------------------------------ claims C11, C12
\* The paint a mode leaves on a pixel it covers.
Paint(mode) == IF mode = "erase" THEN 0 ELSE 255

\* What C11 asks of the call recorded in lib.  The capsule of the segment
\* reaches size * scale pixels beyond its end points; on the row it is the
\* interval first .. last.
SegmentPainted ==
  LET reach == 2 * lib.size * lib.scale
      first == (IF lib.from <= lib.to THEN lib.from ELSE lib.to) - reach
      last == (IF lib.from <= lib.to THEN lib.to ELSE lib.from) + reach
  IN \A k \in Row :
       /\ (first <= 2 * k /\ 2 * k + 2 <= last)
            => lib.px[k] = Paint(lib.mode)
       /\ (2 * k + 2 <= first \/ last <= 2 * k)
            => lib.px[k] = lib.before[k]

\* What drawBrushLine does guarantee: a segment between two distinct points
\* sets every pixel wholly inside its capsule to 0 (erase) or 255 (restore)
\* whatever the pixel held, and leaves every pixel outside the capsule as it
\* was.
DistinctEndsPaintCapsule ==
  (lib.fn = "drawBrushLine" /\ lib.from # lib.to) => SegmentPainted

\* C11 (refuted by the code): every segment drawn by drawBrushLine, one whose
\* end points coincide included, sets every pixel wholly inside its
\* round-capped capsule to 0 (erase) or 255 (restore) whatever the pixel
\* held, and leaves every pixel outside the capsule as it was.
C11_AnySegmentPaintsCapsule ==
  (lib.fn = "drawBrushLine") => SegmentPainted

\* C12 (refuted by the code): after an erase segment and a restore segment
\* along the same path with the same size, the mask is what it was before
\* the erase, to within one alpha step of rounding.
C12_EraseRestoreInverse ==
  (lib.fn = "retrace") =>
    \A k \in Row : /\ lib.px[k] - lib.before[k] <= 1
                   /\ lib.before[k] - lib.px[k] <= 1

\* ================================================ claims C13 and C14
\* Touch gestures on the refinement viewport, explored from an open
\* refinement session with room to zoom, to pan and to land two contacts in
\* one event.
MaxGestureStrokes == 2   \* strokes ended in the session
MaxGesturePan == 1       \* largest pan offset (in drag steps)
MaxGestureZoom == 40     \* largest zoom level (tenths)

GestureCap == [uploads |-> 1, sizes |-> 1, strokes |-> MaxGestureStrokes, pending |-> 0,
               touches |-> MaxTouches, landing |-> MaxTouches,
               pan |-> MaxGesturePan, zoom |-> MaxGestureZoom,
               edits |-> SessionEdits]

\* The session machine's state once an image has been processed and the
\* editor opened, then edited as given (Unedited: nothing touched yet), and
\* (refining) Refine Edges clicked.
EditorStateWith(m, refining, size, edited) ==
  /\ history = <<saveMaskSnapshot(m)>>
  /\ historyIndex = 0
  /\ ret = None
  /\ lastOp = IF refining THEN "HandleOpenRefineEdges" ELSE edited.op
  /\ pushed = <<saveMaskSnapshot(m)>>
  /\ consecutive = TRUE
  /\ branches = 0
  /\ prev = [op |-> "init", ret |-> None, idx |-> -1]
  /\ originalImage = 1
  /\ maskCanvas = [id |-> 1, px |-> m, width |-> size.naturalWidth,
                   height |-> size.naturalHeight]
  /\ brushMode = "erase"
  /\ isEditModalOpen = TRUE
  /\ hasUnsavedEdits = edited.unsaved
  /\ editState = edited.state
  /\ isRefineModalOpen = refining
  /\ preRefineMaskSnapshot = IF refining THEN saveMaskSnapshot(m) ELSE None
  /\ refineEdgesState = refineEdgesInitialState
  /\ viewState = "result"
  /\ jobs = {}
  /\ uploads = <<size>>
  /\ emConfirm = FALSE
  /\ hasSessionEdits = FALSE
  /\ rmConfirm = FALSE
  /\ pendingAction = None
  /\ rc = rcInitial
  /\ ev = evInitial
  /\ touches = 0
  /\ restores = <<>>
  /\ lastRestore = None
  /\ strokes = 0
  /\ gesture = 0
  /\ baseline = [editor |-> m, refine |-> IF refining THEN m ELSE None]
  /\ dragState = edited.drag
  /\ tally = edited.tally

\* The editor as opened: nothing edited yet.
Unedited == [op |-> "HandleEdit", state |-> editInitialState,
             unsaved |-> FALSE, drag |-> dragInitial, tally |-> NoTally]

EditorStateOn(m, refining, size) ==
  EditorStateWith(m, refining, size, Unedited)

EditorState(m, refining) ==
  EditorStateOn(m, refining, [naturalWidth |-> 1, naturalHeight |-> 1])

RefineOpened(m) == EditorState(m, TRUE)

EditorOpened(m) == EditorState(m, FALSE)

InitGesture ==
  /\ \E m \in SegMasks : RefineOpened(m)
  /\ lib = None
  /\ cap = GestureCap

NextGesture == RcTouchStart \/ RcTouchMove \/ RcTouchEnd \/ SetBrushMode

SpecGesture == InitGesture /\ [][NextGesture]_vars

\* RefineOpened and EditorOpened are states of the full session machine.
RefineOpenedUnreached == \A m \in SegMasks : ~RefineOpened(m)
EditorOpenedUnreached == \A m \in SegMasks : ~EditorOpened(m)

\* A gesture that began with two contacts leaves the mask alone until every
\* contact has lifted.
PinchKeepsMask == [][gesture = 2 => maskCanvas' = maskCanvas]_vars

\* C13 (refuted by the code): the class of a touch gesture on the refinement
\* viewport is fixed by the number of contacts it began with and kept until
\* all contacts have lifted: a gesture begun with two contacts never changes
\* the mask, a gesture begun with one contact never changes zoom or pan.
C13_GestureClassFixed ==
  [][/\ gesture = 2 => maskCanvas' = maskCanvas
     /\ gesture = 1 => refineEdgesState' = refineEdgesState]_vars

\* The refinement canvas under mouse and touch input together, from an open
\* refinement session.
NextSurface == RcMouseDown \/ RcMouseMove \/ RcMouseUp \/ RcMouseLeave
                 \/ RcTouchStart \/ RcTouchMove \/ RcTouchEnd

SpecSurface == InitGesture /\ [][NextSurface]_vars

\* Both brush surfaces are never mounted together: EditingView belongs to the
\* editing view, RefineEdgesCanvas to the editor opened from the result
\* view.
OneBrushSurface == ~(MountedEV /\ MountedRM) /\ ~(ev.isDrawing /\ rc.isDrawing)

\* C14 (refuted by the code): on a surface that takes mouse and touch, a
\* stroke of one pointer never starts (setting isDrawing and the recorded
\* last point) while a stroke of the other pointer is in progress.
C14_StrokesNeverOverlap ==
  [][/\ (RcTouchStart /\ touches = 0 /\ touches' = 1) => ~rc.isDrawing
     /\ (RcMouseDown /\ ~refineEdgesState.isSpacePressed /\ touches > 0)
          => ~rc.isDrawing]_vars

\* ============================================ claims C15, C16 and C18
\* The editor and its refinement sessions, explored from an opened editor
\* over a mask whose followed pixel is background or foreground, with room
\* for several strokes and with restorations that may fail.
MaxEditorStrokes == 2    \* strokes ended in the editor session

EditorCap == [uploads |-> 1, sizes |-> 1, strokes |-> MaxEditorStrokes, pending |-> 1,
              touches |-> 0, landing |-> 1, pan |-> 0, zoom |-> 10,
              edits |-> SessionEdits]

\* Mask contents segmentation can produce at the followed pixel.
AnyMasks == [Pixels -> {0, 255}]

InitEditor ==
  /\ \E m \in AnyMasks : EditorOpened(m)
  /\ lib = None
  /\ cap = EditorCap

NextEditor == Editor \/ Refine \/ FailRestore
                \/ RcMouseDown \/ RcMouseMove \/ RcMouseUp \/ SetBrushMode

SpecEditor == InitEditor /\ [][NextEditor]_vars

\* C15: once the restoration started by confirming Discard in a refinement
\* session, or by Reset All Edits, has completed, the live mask is exactly
\* the content it had when that refinement session was opened.
C15_DiscardRestoresSession ==
  (lastOp = "CompleteRestore" /\ lastRestore.kind \in {"discard", "resetAll"})
    => (maskCanvas # None /\ maskCanvas.px = lastRestore.opened)

\* Two strokes were ended, the last of them left the mask different from what
\* the completed Reset All Edits has now put back.
C15_Witness ==
  /\ lastOp = "CompleteRestore"
  /\ lastRestore.kind = "resetAll"
  /\ strokes = 2
  /\ Len(pushed) >= 3
  /\ pushed[Len(pushed)] # saveMaskSnapshot(maskCanvas.px)
  /\ maskCanvas.px = lastRestore.opened

\* C16 (refuted by the code): confirming Discard in the main editor returns
\* the edit state to its defaults and the mask to the content it had when
\* the editor was opened.
C16_DiscardRollsBackEditor ==
  [][EmConfirmDiscard =>
       /\ editState' = editInitialState
       /\ ~hasUnsavedEdits'
       /\ maskCanvas'.px = baseline.editor]_vars

\* C18 (refuted by the code): when a restoration fails, history is reset
\* and re-based on a fresh snapshot of the live mask.
C18_FailedRestoreRebasesHistory ==
  (lastOp = "FailRestore")
    => /\ history = <<saveMaskSnapshot(maskCanvas.px)>>
       /\ historyIndex = 0

\* ================================================ claims C17 and C20
\* Uploads on their own: images of different natural sizes, a second one
\* selected while the first is still loading, resets in between.
MaxOverlappingUploads == 3   \* images selected in one page session
MaxOverlappingSizes == 2     \* distinct natural sizes among them

UploadCap == [uploads |-> MaxOverlappingUploads,
              sizes |-> MaxOverlappingSizes, strokes |-> 0, pending |-> 0,
              touches |-> 0, landing |-> 1, pan |-> 0, zoom |-> 10,
              edits |-> SessionEdits]

InitUpload == initialState /\ lib = None /\ cap = UploadCap

SpecUpload == InitUpload /\ [][Upload]_vars

\* C17 (refuted by the code): reset leaves history empty with index -1,
\* and when an uploaded image has been processed history holds exactly one
\* snapshot, that image's initial mask, at index 0.
C17_HistoryPerImage ==
  /\ (lastOp = "HandleReset") => (history = <<>> /\ historyIndex = -1)
  /\ (lastOp = "ProcessingDone")
       => /\ history = <<saveMaskSnapshot(maskCanvas.px)>>
          /\ historyIndex = 0

\* C20 (refuted by the code): whenever the store holds both the source image
\* and a mask, the mask canvas has the source image's natural width and
\* height.
C20_MaskSizedAsImage ==
  (originalImage # 0 /\ maskCanvas # None)
    => /\ maskCanvas.width = uploads[originalImage].naturalWidth
       /\ maskCanvas.height = uploads[originalImage].naturalHeight

\* ========================================================== claim C19
\* The render calls of brushTool.ts and the preview renders on their own.  A
\* target is the sequence of layers drawn on it, bottom first;
\* getContext('2d') of a canvas the call creates may return null.
Backgrounds ==
  [type : {"transparent", "color", "image"}, color : BOOLEAN,
   image : BOOLEAN]

\* Which of the canvases a call creates yield a context: the temporary canvas
\* of drawMaskedForeground, the export canvas of createExportCanvas.
Acquisitions == [temp : BOOLEAN, export : BOOLEAN]

\* What the target canvas of renderComposite holds before the call.
PriorTargets == {<<>>, <<"stale">>}

\* drawBackground: a colour fill (white when no colour is given), the image
\* when there is one, the checkerboard for 'transparent' and by default.
drawBackground(target, background) ==
  IF background.type = "color"
  THEN Append(target, IF background.color THEN "color" ELSE "#ffffff")
  ELSE IF background.type = "image"
  THEN (IF background.image THEN Append(target, "image") ELSE target)
  ELSE Append(target, "checkerboard")

\* drawMaskedForeground: if (!tempCtx) return; else the masked image is
\* composed on the temporary canvas and drawn onto the target.
drawMaskedForeground(target, acquired) ==
  IF ~acquired.temp THEN target ELSE Append(target, "foreground")

\* renderComposite: clearRect, drawBackground, drawMaskedForeground; it has
\* no failure path of its own.
renderComposite(target, background, acquired) ==
  [outcome |-> "returned",
   target |-> drawMaskedForeground(drawBackground(<<>>, background),
                                   acquired)]

\* An export that always goes through renderComposite.
createExportCanvas_viaComposite(background, acquired) ==
  IF ~acquired.export
  THEN [outcome |-> "threw", target |-> <<>>]
  ELSE [outcome |-> "returned",
        target |-> renderComposite(<<>>, background, acquired).target]

\* createExportCanvas: throws when the export canvas yields no context; a
\* transparent export skips the background.
createExportCanvas(background, acquired) ==
  IF ~acquired.export
  THEN [outcome |-> "threw", target |-> <<>>]
  ELSE IF background.type = "transparent"
  THEN [outcome |-> "returned",
        target |-> drawMaskedForeground(<<>>, acquired)]
  ELSE [outcome |-> "returned",
        target |-> renderComposite(<<>>, background, acquired).target]

\* Filter settings of the edit state: the defaults, and brightness and blur
\* moved off them.
FilterSettings ==
  {editInitialState.filters,
   [editInitialState.filters EXCEPT !.brightness = 150, !.blur = 4]}

\* Mask alpha at the pixel followed.
MaskAlphas == {0, 255}

InitRender ==
  /\ initialState
  /\ cap = SessionCap
  /\ \E b \in Backgrounds, a \in Acquisitions, p \in PriorTargets,
        f \in FilterSettings, supported \in BOOLEAN, before \in BOOLEAN,
        overlay \in BOOLEAN, m \in MaskAlphas :
       lib = [fn |-> "none", background |-> b, acquired |-> a,
              outcome |-> "pending", target |-> p, filters |-> f,
              filterSupported |-> supported, showBefore |-> before,
              cropOverlay |-> overlay, mask |-> m, filtered |-> {}]

\* The frame of a render call: no program state besides the target changes.
RenderFrame ==
  /\ UNCHANGED storeVars
  /\ UNCHANGED <<originalImage, maskCanvas, brushMode, isEditModalOpen,
                 hasUnsavedEdits, editState, isRefineModalOpen,
                 preRefineMaskSnapshot, refineEdgesState, viewState, jobs,
                 uploads, emConfirm, hasSessionEdits, rmConfirm,
                 pendingAction, rc, ev, touches, restores, lastRestore,
                 strokes, gesture, baseline, cap, dragState, tally>>

RenderComposite ==
  /\ lib.outcome = "pending"
  /\ LET r == renderComposite(lib.target, lib.background, lib.acquired)
     IN lib' = [lib EXCEPT !.fn = "renderComposite",
                           !.outcome = r.outcome, !.target = r.target]
  /\ RenderFrame

CreateExportCanvas ==
  /\ lib.outcome = "pending"
  /\ LET r == createExportCanvas(lib.background, lib.acquired)
     IN lib' = [lib EXCEPT !.fn = "createExportCanvas",
                           !.outcome = r.outcome, !.target = r.target]
  /\ RenderFrame

\* buildFilterString(filters): the functions of the CSS filter string, each
\* with its amount; the empty set is 'none'.
buildFilterString(filters) ==
  (IF filters.brightness # 100
   THEN {<<"brightness", filters.brightness>>} ELSE {})
  \cup (IF filters.contrast # 100
        THEN {<<"contrast", filters.contrast>>} ELSE {})
  \cup (IF filters.saturation # 100
        THEN {<<"saturate", filters.saturation>>} ELSE {})
  \cup (IF filters.blur > 0 THEN {<<"blur", filters.blur>>} ELSE {})

\* A 2d context as a render starts: no filter, a cleared canvas.  filtered
\* collects the layers drawn while a filter was set.
clearedContext == [filter |-> {}, target |-> <<>>, filtered |-> {}]

\* applyFilter(ctx, filters): sets ctx.filter where the context has one.
applyFilter(ctx, filters, supported) ==
  IF supported THEN [ctx EXCEPT !.filter = buildFilterString(filters)]
  ELSE ctx

\* resetFilter(ctx).
resetFilter(ctx, supported) ==
  IF supported THEN [ctx EXCEPT !.filter = {}] ELSE ctx

\* Drawing layers on a context: each is drawn through ctx.filter.
draw(ctx, layers) ==
  [ctx EXCEPT !.target = @ \o layers,
              !.filtered = IF ctx.filter = {} THEN @
                           ELSE @ \cup {layers[k] : k \in 1..Len(layers)}]

\* The background step of renderPreview: a fill for 'color', the image for
\* 'image' when there is one.
previewBackground(background) ==
  IF background.type = "color" THEN <<"color">>
  ELSE IF background.type = "image" /\ background.image THEN <<"image">>
  ELSE <<>>

\* renderPreview of EditPreview.tsx: the original alone for showBefore; else
\* checkerboard, save, transforms, applyFilter, background, resetFilter,
\* masked foreground, restore, crop overlay.
renderPreview(background, filters, supported, acquired, showBefore, overlay) ==
  IF showBefore THEN draw(clearedContext, <<"original">>)
  ELSE
    LET c1 == IF background.type = "transparent"
              THEN draw(clearedContext, <<"checkerboard">>)
              ELSE clearedContext
        c2 == applyFilter(c1, filters, supported)
        c3 == draw(c2, previewBackground(background))
        c4 == resetFilter(c3, supported)
        c5 == draw(c4, drawMaskedForeground(<<>>, acquired))
        c6 == [c5 EXCEPT !.filter = c1.filter]
    IN IF overlay THEN draw(c6, <<"cropOverlay">>) ELSE c6

\* renderPreview of the EditPreview in unnamed/part_001: the original alone
\* for showBefore; else checkerboard, save, transforms, applyFilter,
\* background, masked foreground, resetFilter, restore.
renderPreviewPanning(background, filters, supported, acquired, showBefore) ==
  IF showBefore THEN draw(clearedContext, <<"original">>)
  ELSE
    LET c1 == IF background.type = "transparent"
              THEN draw(clearedContext, <<"checkerboard">>)
              ELSE clearedContext
        c2 == applyFilter(c1, filters, supported)
        c3 == draw(c2, previewBackground(background))
        c4 == draw(c3, drawMaskedForeground(<<>>, acquired))
        c5 == resetFilter(c4, supported)
    IN [c5 EXCEPT !.filter = c1.filter]

\* A render of EditPreview.tsx's preview.
RenderPreview ==
  /\ lib.outcome = "pending"
  /\ LET c == renderPreview(lib.background, lib.filters,
                            lib.filterSupported, lib.acquired,
                            lib.showBefore, lib.cropOverlay)
     IN lib' = [lib EXCEPT !.fn = "renderPreview", !.outcome = "returned",
                           !.target = c.target, !.filtered = c.filtered]
  /\ RenderFrame

\* A render of the preview of unnamed/part_001 (the EditPreview with wheel
\* zoom and drag panning).
RenderPreviewPanning ==
  /\ lib.outcome = "pending"
  /\ LET c == renderPreviewPanning(lib.background, lib.filters,
                                   lib.filterSupported, lib.acquired,
                                   lib.showBefore)
     IN lib' = [lib EXCEPT !.fn = "renderPreviewPanning",
                           !.outcome = "returned",
                           !.target = c.target, !.filtered = c.filtered]
  /\ RenderFrame

NextRender == RenderComposite \/ CreateExportCanvas \/ RenderPreview
                \/ RenderPreviewPanning

SpecRender == InitRender /\ [][NextRender]_vars

\* The drawing surfaces the recorded call needed were all acquired.
SurfacesAcquired ==
  IF lib.fn = "createExportCanvas"
  THEN lib.acquired.export /\ lib.acquired.temp
  ELSE lib.acquired.temp

\* C19 (refuted by the code): a render call that could not acquire a drawing
\* surface it needed reports failure to its caller; it does not return
\* normally.
C19_RenderFailsWhole ==
  (lib.fn \in {"renderComposite", "createExportCanvas"} /\ ~SurfacesAcquired)
    => lib.outcome = "threw"

\* ====================================================== claim C21
\* The main editor's zoom, explored from an open editor: the zoom slider of
\* TransformControls, the wheel handler of the preview (unnamed/part_001) and
\* setEditState called with a zoom directly.
MaxPreviewPan == 20      \* largest pan offset of the preview (pixels)

\* The positions of the zoom slider: <input type="range" min 0.5 max 3.0
\* step 0.1>, in hundredths.
ZoomSliderValues == {50 + 10 * k : k \in 0..25}

\* Zoom values passed to setEditState directly.
DirectEdits == {[zoom |-> 10], [zoom |-> 500]}

\* Cursor positions of a wheel event, relative to the centre of the canvas.
WheelPoints == {[x |-> 0, y |-> 0], [x |-> 100, y |-> 0]}

\* n / d rounded to the nearest integer (d > 0).
nearest(n, d) == (2 * n + d) \div (2 * d)

\* Math.max(0.5, Math.min(3.0, editState.zoom * zoomFactor)), zoomFactor 0.9
\* for deltaY > 0 and 1.1 otherwise; zoom in hundredths.
wheelZoom(zoom, deltaY) ==
  LET z == IF deltaY > 0 THEN nearest(zoom * 9, 10) ELSE nearest(zoom * 11, 10)
  IN IF z > 300 THEN 300 ELSE IF z < 50 THEN 50 ELSE z

\* pan - d * (zoomRatio - 1) for d = mouse - centre - pan and zoomRatio =
\* newZoom / zoom, to the nearest pixel.
wheelPan(pan, mouse, zoom, newZoom) ==
  pan - nearest((mouse - pan) * (newZoom - zoom), zoom)

\* A control of the main editor: setEditState(partial), which also sets
\* hasUnsavedEdits.
emEdit(op, partial) ==
  /\ EditControls
  /\ editState' = setEditState(editState, partial)
  /\ hasUnsavedEdits' = TRUE
  /\ Obs(op)
  /\ UNCHANGED <<histVars, imgVars, brushMode, isEditModalOpen, refineVars,
                 uploadVars, strokes, consecutive>>
  /\ KeepComponents

\* TransformControls.handleZoomChange(value), value a slider position.
HandleZoomChange ==
  \E value \in ZoomSliderValues : emEdit("HandleZoomChange", [zoom |-> value])

\* The preview's handleWheel: zoom by a tenth toward the cursor.
HandleWheel ==
  \E deltaY \in {-1, 1}, at \in WheelPoints :
    LET newZoom == wheelZoom(editState.zoom, deltaY)
        pan == [x |-> wheelPan(editState.pan.x, at.x, editState.zoom, newZoom),
                y |-> wheelPan(editState.pan.y, at.y, editState.zoom, newZoom)]
    IN /\ pan.x \in (-cap.previewPan)..cap.previewPan
       /\ pan.y \in (-cap.previewPan)..cap.previewPan
       /\ emEdit("HandleWheel", [zoom |-> newZoom, pan |-> pan])

ZoomCap == [uploads |-> 1, sizes |-> 1, strokes |-> 0, pending |-> 0,
            touches |-> 0, landing |-> 1, pan |-> 0, zoom |-> 10,
            edits |-> DirectEdits, previewPan |-> MaxPreviewPan]

InitZoom ==
  /\ \E m \in SegMasks : EditorOpened(m)
  /\ lib = None
  /\ cap = ZoomCap

NextZoom == HandleZoomChange \/ HandleWheel \/ SetEditState

SpecZoom == InitZoom /\ [][NextZoom]_vars

\* The slider and the wheel store a zoom in [0.5, 3.0] whatever the zoom was.
ControlsKeepZoomInRange ==
  [][(HandleZoomChange \/ HandleWheel) => editState'.zoom \in 50..300]_vars

\* C21: after every update of the main editor's zoom, by the slider, the
\* wheel or a direct setEditState, the stored zoom lies in [0.5, 3.0].
C21_EditorZoomInRange == editState.zoom \in 50..300

\* ====================================================== claim C22
\* The refinement viewport's zoom, explored from an open refinement session:
\* slider, wheel, pinch and reset, and the session finished and opened again.
MaxViewportZoom == 40    \* largest zoom level explored (tenths)

ViewportCap == [uploads |-> 1, sizes |-> 1, strokes |-> 1, pending |-> 0,
                touches |-> MaxTouches, landing |-> MaxTouches, pan |-> 0,
                zoom |-> MaxViewportZoom, edits |-> SessionEdits]

InitViewport ==
  /\ \E m \in SegMasks : RefineOpened(m)
  /\ lib = None
  /\ cap = ViewportCap

NextViewport == RcZoomSlider \/ RcWheel \/ RcResetView \/ RcTouchStart
                  \/ RcTouchMove \/ RcTouchEnd \/ HandleFinishRefining
                  \/ HandleOpenRefineEdges

SpecViewport == InitViewport /\ [][NextViewport]_vars

\* C22: in every reachable state the refinement viewport's zoom lies in
\* [1.0, 4.0], whatever slider, wheel and pinch updates, resets, closings and
\* openings came before.
C22_ViewportZoomInRange == refineEdgesState.zoom \in 10..40

\* A pinch that spread the contacts to four times their distance, started
\* above zoom 1.0, has left the viewport at 4.0.
C22_Witness ==
  /\ lastOp = "move" /\ touches = 2
  /\ rc.touchStartZoom > 10
  /\ refineEdgesState.zoom = 40

\* ====================================================== claim C23
\* The transform buttons of the main editor, explored from an open editor
\* together with the ways the editor closes and opens again.
MaxTurns == 5            \* clicks on each rotate button between two resets

\* JavaScript's a % b for b > 0: the remainder has the sign of a.
jsRem(a, b) == IF a >= 0 THEN a % b ELSE -((-a) % b)

\* handleRotate's rotation without the second remainder.
newRotation_noWrap(rotation, degrees) == jsRem(rotation + degrees, 360)

\* handleRotate: ((rotation + degrees) % 360 + 360) % 360.
newRotation(rotation, degrees) ==
  jsRem(jsRem(rotation + degrees, 360) + 360, 360)

\* TransformControls.handleRotate(degrees), from the Rotate Left (-90) and
\* Rotate Right (90) buttons.
HandleRotate ==
  \E degrees \in {-90, 90} :
    /\ EditControls
    /\ IF degrees = 90 THEN tally.rights < cap.turns
                       ELSE tally.lefts < cap.turns
    /\ editState' =
         setEditState(editState,
                      [rotation |-> newRotation(editState.rotation, degrees)])
    /\ hasUnsavedEdits' = TRUE
    /\ Obs("HandleRotate")
    /\ UNCHANGED <<histVars, imgVars, brushMode, isEditModalOpen, refineVars,
                   uploadVars, strokes, consecutive>>
    /\ ComponentsOf(emConfirm, RmNow, rc, ev, touches, restores, dragState,
                    IF degrees = 90 THEN [tally EXCEPT !.rights = @ + 1]
                                    ELSE [tally EXCEPT !.lefts = @ + 1])

\* TransformControls.handleFlipHorizontal.
HandleFlipHorizontal ==
  emEdit("HandleFlipHorizontal",
         [flipHorizontal |-> ~editState.flipHorizontal])

\* TransformControls.handleFlipVertical.
HandleFlipVertical ==
  emEdit("HandleFlipVertical", [flipVertical |-> ~editState.flipVertical])

TransformCap == [uploads |-> 1, sizes |-> 1, strokes |-> 0, pending |-> 0,
                 touches |-> 0, landing |-> 1, pan |-> 0, zoom |-> 10,
                 edits |-> SessionEdits, turns |-> MaxTurns]

InitTransform ==
  /\ \E m \in SegMasks : EditorOpened(m)
  /\ lib = None
  /\ cap = TransformCap

NextTransform == HandleRotate \/ HandleFlipHorizontal \/ HandleFlipVertical
                   \/ HandleApply \/ HandleExit \/ EmConfirmDiscard
                   \/ EmKeepEditing \/ HandleEdit

SpecTransform == InitTransform /\ [][NextTransform]_vars

\* C23: after any sequence of rotate-left and rotate-right clicks starting
\* from rotation 0, the stored rotation is
\* (90 x (rights - lefts)) mod 360, one of 0, 90, 180, 270.
C23_RotationNormalized ==
  /\ editState.rotation = (90 * (tally.rights - tally.lefts)) % 360
  /\ editState.rotation \in {0, 90, 180, 270}

\* Five lefts and two rights, three quarter turns to the left in all, have
\* left the rotation at 90.
C23_Witness ==
  /\ lastOp = "HandleRotate"
  /\ tally.rights = 2 /\ tally.lefts = 5
  /\ editState.rotation = 90

\* ====================================================== claim C24
\* openRefineModal and closeRefineModal both store refineEdgesInitialState:
\* the refinement viewport opens at zoom 1.0 and pan 0.
ViewportOpensAtDefaults ==
  [][HandleOpenRefineEdges =>
       refineEdgesState' = refineEdgesInitialState]_vars

\* C24: each time a surface is opened or re-opened its view state equals the
\* defaults: the refinement viewport opens with zoom 1.0 and pan (0,0), the
\* main editor with zoom 1.0, pan (0,0), rotation 0 and no flips, also when
\* it was last closed with Apply.
C24_SurfacesOpenAtDefaults ==
  [][/\ HandleOpenRefineEdges =>
          /\ refineEdgesState'.zoom = 10
          /\ refineEdgesState'.pan = 0
     /\ HandleEdit =>
          /\ editState'.zoom = 100
          /\ editState'.pan = [x |-> 0, y |-> 0]
          /\ editState'.rotation = 0
          /\ ~editState'.flipHorizontal
          /\ ~editState'.flipVertical]_vars

\* ================================================ claims C25 .. C27
\* The crop box of the main editor's preview (EditPreview.tsx), explored from
\* an open editor: aspect-ratio selection and drags of the crop handles.
\* Lengths are exact fractions of a display pixel.
MaxDrags == 1            \* crop drags begun between two resets
MaxGrid == 2             \* pointer positions per axis: multiples of size / grid

MIN_CROP_SIZE == 50
HANDLE_SIZE == 10
EDGE_THRESHOLD == 10
ContainerWidth == 800    \* container.clientWidth || 800
ContainerHeight == 600   \* container.clientHeight || 600

\* The size the mount effect gives the preview canvas: the image fitted into
\* the container, each dimension truncated to an integer by the canvas
\* element.
previewCanvas(image) ==
  LET aspectRatio == Q(image.naturalWidth, image.naturalHeight)
      height == qDiv(qInt(ContainerWidth), aspectRatio)
  IN IF qLt(qInt(ContainerHeight), height)
     THEN [width |-> qFloor(qMul(qInt(ContainerHeight), aspectRatio)),
           height |-> ContainerHeight]
     ELSE [width |-> ContainerWidth, height |-> qFloor(height)]

\* enforceBounds without its two clamping steps.
enforceBounds_noClamp(crop, canvasWidth, canvasHeight, aspectRatio) ==
  LET locked == aspectRatio # None
      w1 == qMax(qInt(MIN_CROP_SIZE), crop.width)
      h1 == qMax(qInt(MIN_CROP_SIZE), crop.height)
      shrinkW == locked /\ qLt(qMul(h1, aspectRatio), w1)
  IN [x |-> crop.x, y |-> crop.y,
      width |-> IF shrinkW THEN qMul(h1, aspectRatio) ELSE w1,
      height |-> IF locked /\ ~shrinkW THEN qDiv(w1, aspectRatio) ELSE h1]

\* enforceBounds treating every box as free of a locked ratio.
enforceBounds_unlocked(crop, canvasWidth, canvasHeight, aspectRatio) ==
  LET cw == qInt(canvasWidth)
      ch == qInt(canvasHeight)
      w1 == qMax(qInt(MIN_CROP_SIZE), crop.width)
      h1 == qMax(qInt(MIN_CROP_SIZE), crop.height)
      x1 == IF qLt(crop.x, qInt(0)) THEN qInt(0) ELSE crop.x
      y1 == IF qLt(crop.y, qInt(0)) THEN qInt(0) ELSE crop.y
      x2 == IF qLt(cw, qAdd(x1, w1)) THEN qSub(cw, w1) ELSE x1
      y2 == IF qLt(ch, qAdd(y1, h1)) THEN qSub(ch, h1) ELSE y1
  IN [x |-> IF qLt(cw, w1) THEN qInt(0) ELSE x2,
      y |-> IF qLt(ch, h1) THEN qInt(0) ELSE y2,
      width |-> IF qLt(cw, w1) THEN cw ELSE w1,
      height |-> IF qLt(ch, h1) THEN ch ELSE h1]

\* enforceBounds(crop, canvasWidth, canvasHeight, aspectRatio), statement by
\* statement.
enforceBounds(crop, canvasWidth, canvasHeight, aspectRatio) ==
  LET cw == qInt(canvasWidth)
      ch == qInt(canvasHeight)
      locked == aspectRatio # None
      \* enforce minimum size
      w1 == qMax(qInt(MIN_CROP_SIZE), crop.width)
      h1 == qMax(qInt(MIN_CROP_SIZE), crop.height)
      \* if aspect ratio locked, adjust to fit
      shrinkW == locked /\ qLt(qMul(h1, aspectRatio), w1)
      w2 == IF shrinkW THEN qMul(h1, aspectRatio) ELSE w1
      h2 == IF locked /\ ~shrinkW THEN qDiv(w1, aspectRatio) ELSE h1
      \* clamp to canvas bounds
      x1 == IF qLt(crop.x, qInt(0)) THEN qInt(0) ELSE crop.x
      y1 == IF qLt(crop.y, qInt(0)) THEN qInt(0) ELSE crop.y
      x2 == IF qLt(cw, qAdd(x1, w2)) THEN qSub(cw, w2) ELSE x1
      y2 == IF qLt(ch, qAdd(y1, h2)) THEN qSub(ch, h2) ELSE y1
      \* if still out of bounds, shrink
      wide == qLt(cw, w2)
      w3 == IF wide THEN cw ELSE w2
      x3 == IF wide THEN qInt(0) ELSE x2
      h3 == IF wide /\ locked THEN qDiv(w3, aspectRatio) ELSE h2
      tall == qLt(ch, h3)
      h4 == IF tall THEN ch ELSE h3
      y3 == IF tall THEN qInt(0) ELSE y2
      w4 == IF tall /\ locked THEN qMul(h4, aspectRatio) ELSE w3
  IN [x |-> x3, y |-> y3, width |-> w4, height |-> h4]

\* A hit test that finds the interior everywhere.
detectHandle_anywhere(x, y, crop) == "move"

\* detectHandle(x, y, crop): the corner, edge or interior under the pointer,
\* "null" for none.
detectHandle(x, y, crop) ==
  LET cx == crop.x
      cy == crop.y
      right == qAdd(crop.x, crop.width)
      bottom == qAdd(crop.y, crop.height)
      hs == qInt(HANDLE_SIZE)
      et == qInt(EDGE_THRESHOLD)
      near(v, c, r) == qLe(qSub(c, r), v) /\ qLe(v, qAdd(c, r))
      within(v, lo, hi) == qLt(qAdd(lo, hs), v) /\ qLt(v, qSub(hi, hs))
  IN IF near(x, cx, hs) /\ near(y, cy, hs) THEN "tl"
     ELSE IF near(x, right, hs) /\ near(y, cy, hs) THEN "tr"
     ELSE IF near(x, cx, hs) /\ near(y, bottom, hs) THEN "bl"
     ELSE IF near(x, right, hs) /\ near(y, bottom, hs) THEN "br"
     ELSE IF near(y, cy, et) /\ within(x, cx, right) THEN "top"
     ELSE IF near(y, bottom, et) /\ within(x, cx, right) THEN "bottom"
     ELSE IF near(x, cx, et) /\ within(y, cy, bottom) THEN "left"
     ELSE IF near(x, right, et) /\ within(y, cy, bottom) THEN "right"
     ELSE IF qLt(cx, x) /\ qLt(x, right) /\ qLt(cy, y) /\ qLt(y, bottom)
     THEN "move"
     ELSE "null"

\* The box handleMouseMove computes from the drag's start box, its handle
\* and the pointer's displacement, before bounds enforcement (the switch on
\* handleType).
draggedCrop(startCrop, handleType, deltaX, deltaY, aspectRatioValue) ==
  LET locked == aspectRatioValue # None
      sw == startCrop.width
      sh == startCrop.height
      \* a corner: the dimension that changed more leads
      widthLeads == qLt(qDiv(qAbs(deltaY), sh), qDiv(qAbs(deltaX), sw))
      cornerW(w, h) == IF locked /\ ~widthLeads
                       THEN qMul(h, aspectRatioValue) ELSE w
      cornerH(w, h) == IF locked /\ widthLeads
                       THEN qDiv(w, aspectRatioValue) ELSE h
      \* an edge: the other dimension follows
      edgeW(h) == IF locked THEN qMul(h, aspectRatioValue) ELSE sw
      edgeH(w) == IF locked THEN qDiv(w, aspectRatioValue) ELSE sh
      grownW == qAdd(sw, deltaX)
      shrunkW == qSub(sw, deltaX)
      grownH == qAdd(sh, deltaY)
      shrunkH == qSub(sh, deltaY)
      farX(w) == qSub(qAdd(startCrop.x, sw), w)
      farY(h) == qSub(qAdd(startCrop.y, sh), h)
      midX(w) == qSub(startCrop.x, qHalf(qSub(w, sw)))
      midY(h) == qSub(startCrop.y, qHalf(qSub(h, sh)))
      box(x, y, w, h) == [x |-> x, y |-> y, width |-> w, height |-> h]
  IN IF handleType = "move"
     THEN box(qAdd(startCrop.x, deltaX), qAdd(startCrop.y, deltaY), sw, sh)
     ELSE IF handleType = "br"
     THEN box(startCrop.x, startCrop.y,
              cornerW(grownW, grownH), cornerH(grownW, grownH))
     ELSE IF handleType = "tl"
     THEN box(farX(cornerW(shrunkW, shrunkH)), farY(cornerH(shrunkW, shrunkH)),
              cornerW(shrunkW, shrunkH), cornerH(shrunkW, shrunkH))
     ELSE IF handleType = "tr"
     THEN box(startCrop.x, farY(cornerH(grownW, shrunkH)),
              cornerW(grownW, shrunkH), cornerH(grownW, shrunkH))
     ELSE IF handleType = "bl"
     THEN box(farX(cornerW(shrunkW, grownH)), startCrop.y,
              cornerW(shrunkW, grownH), cornerH(shrunkW, grownH))
     ELSE IF handleType = "top"
     THEN box(midX(edgeW(shrunkH)), farY(shrunkH), edgeW(shrunkH), shrunkH)
     ELSE IF handleType = "bottom"
     THEN box(midX(edgeW(grownH)), startCrop.y, edgeW(grownH), grownH)
     ELSE IF handleType = "left"
     THEN box(farX(shrunkW), midY(edgeH(shrunkW)), shrunkW, edgeH(shrunkW))
     ELSE box(startCrop.x, midY(edgeH(grownW)), grownW, edgeH(grownW))

\* The preview canvas of the mounted EditPreview.
Canvas == previewCanvas(uploads[originalImage])

\* The crop overlay is shown and a crop box exists.
CropShown == editState.aspectRatio # "original" /\ editState.cropBox # None

\* Pointer positions of a mouse-down: the corners, the edge midpoints and the
\* centre of the crop box, and the canvas's top-left corner.
HandlePoints(crop) ==
  {[x |-> qAdd(crop.x, qMul(crop.width, Q(i, 2))),
    y |-> qAdd(crop.y, qMul(crop.height, Q(j, 2)))] : i, j \in 0..2}
    \cup {[x |-> qInt(0), y |-> qInt(0)]}

\* Displacements of the pointer tried from the drag's start position.
SmallMoves == {<<40, 0>>, <<0, 40>>, <<-40, -40>>, <<-60, 30>>}

\* Pointer positions of a mouse-move, all on the canvas (the handler is the
\* canvas element's): a grid over the canvas, and the start position
\* displaced a little.
PointerPositions(canvas, ds) ==
  LET onCanvas(p) == /\ qLe(qInt(0), p.x) /\ qLe(p.x, qInt(canvas.width))
                     /\ qLe(qInt(0), p.y) /\ qLe(p.y, qInt(canvas.height))
      grid == {[x |-> Q(canvas.width * i, cap.grid),
                y |-> Q(canvas.height * j, cap.grid)] : i, j \in 0..cap.grid}
      near == {[x |-> qAdd(ds.startX, qInt(m[1])),
                y |-> qAdd(ds.startY, qInt(m[2]))] : m \in SmallMoves}
  IN grid \cup {p \in near : onCanvas(p)}

\* A handler of EditPreview that leaves the store alone apart from the edit
\* state.
epStep(op, state, unsaved, ds, t) ==
  /\ editState' = state
  /\ hasUnsavedEdits' = unsaved
  /\ Obs(op)
  /\ UNCHANGED <<histVars, imgVars, brushMode, isEditModalOpen, refineVars,
                 uploadVars, strokes, consecutive>>
  /\ ComponentsOf(emConfirm, RmNow, rc, ev, touches, restores, ds, t)

\* TransformControls.handleAspectRatioChange(ratio), and the effect when the
\* selection has changed.
HandleAspectRatioChange ==
  \E ratio \in AspectRatios :
    LET selected == setEditState(editState, [aspectRatio |-> ratio])
    IN /\ EditControls
       /\ epStep("HandleAspectRatioChange",
                 IF ratio = editState.aspectRatio THEN selected
                 ELSE cropEffect(selected, Canvas, uploads[originalImage]),
                 TRUE, dragState, tally)

\* EditPreview.handleMouseDown: nothing without a crop overlay and a crop
\* box; else a drag starts when the pointer is on a handle or inside the crop
\* box.
EpMouseDown ==
  /\ EditControls
  /\ IF ~CropShown
     THEN epStep("EpMouseDown", editState, hasUnsavedEdits, dragState, tally)
     ELSE \E at \in HandlePoints(editState.cropBox) :
            LET handle == detectHandle(at.x, at.y, editState.cropBox)
            IN /\ handle # "null" => tally.drags < cap.drags
               /\ epStep("EpMouseDown", editState, hasUnsavedEdits,
                         IF handle # "null"
                         THEN [isDragging |-> TRUE, handleType |-> handle,
                               startX |-> at.x, startY |-> at.y,
                               startCrop |-> editState.cropBox]
                         ELSE dragState,
                         IF handle # "null"
                         THEN [tally EXCEPT !.drags = @ + 1]
                         ELSE tally)

\* EditPreview.handleMouseMove: without a drag only the hover cursor, which
\* is not followed; while dragging nothing when there is no crop box, else
\* the box recomputed from the drag's start, bounds enforced, stored.
EpMouseMove ==
  /\ EditControls
  /\ IF ~dragState.isDragging \/ editState.cropBox = None
     THEN epStep("EpMouseMove", editState, hasUnsavedEdits, dragState, tally)
     ELSE \E at \in PointerPositions(Canvas, dragState) :
            LET value == ASPECT_RATIO_VALUES(editState.aspectRatio)
                newCrop == draggedCrop(dragState.startCrop,
                                       dragState.handleType,
                                       qSub(at.x, dragState.startX),
                                       qSub(at.y, dragState.startY), value)
            IN epStep("EpMouseMove",
                      setEditState(editState,
                        [cropBox |-> enforceBounds(newCrop, Canvas.width,
                                                   Canvas.height, value)]),
                      TRUE, dragState, tally)

\* EditPreview.handleMouseUp and the window's mouseup listener, which hears
\* a release off the canvas too: the drag ends if there is one.
EpMouseUp ==
  /\ MountedEM
  /\ epStep("EpMouseUp", editState, hasUnsavedEdits,
            IF dragState.isDragging
            THEN [dragState EXCEPT !.isDragging = FALSE,
                                   !.handleType = "null"]
            ELSE dragState,
            tally)

\* Natural sizes of the edited image: landscape, square, portrait.
CropImages == {[naturalWidth |-> 1600, naturalHeight |-> 1200],
               [naturalWidth |-> 1000, naturalHeight |-> 1000],
               [naturalWidth |-> 900, naturalHeight |-> 1600]}

CropCap == [uploads |-> 1, sizes |-> 1, strokes |-> 0, pending |-> 0,
            touches |-> 0, landing |-> 1, pan |-> 0, zoom |-> 10,
            edits |-> SessionEdits, drags |-> MaxDrags, grid |-> MaxGrid]

\* The images whose crop box is dragged: square and portrait.
DragImages == {size \in CropImages : size.naturalWidth <= size.naturalHeight}

InitCrop ==
  /\ \E m \in SegMasks, size \in DragImages : EditorStateOn(m, FALSE, size)
  /\ lib = None
  /\ cap = CropCap

NextCrop == HandleAspectRatioChange \/ EpMouseDown \/ EpMouseMove
              \/ EpMouseUp

SpecCrop == InitCrop /\ [][NextCrop]_vars

C26_CropKeepsLockedRatio ==
  (lastOp = "EpMouseMove" /\ editState.cropBox # None
     /\ ASPECT_RATIO_VALUES(editState.aspectRatio) # None)
    =>
    LET crop == editState.cropBox
        target == ASPECT_RATIO_VALUES(editState.aspectRatio)
    IN /\ qLt(qInt(0), crop.height)
       /\ qLe(qAbs(qSub(qDiv(crop.width, crop.height), target)),
              qMul(Q(1, 100), target))

\* A drag of the top edge of a 4:3 box has changed its height, and its width
\* with it.
C26_Witness ==
  /\ lastOp = "EpMouseMove"
  /\ dragState.isDragging
  /\ dragState.handleType = "top"
  /\ editState.aspectRatio = "4:3"
  /\ editState.cropBox.height # dragState.startCrop.height
  /\ editState.cropBox.width # dragState.startCrop.width

\* C27: every crop box produced by a drag or by an aspect-ratio selection is
\* at least 50 display pixels wide and 50 high, free or locked.
C27_CropMinimumSize ==
  (editState.cropBox # None) =>
    /\ qLe(qInt(MIN_CROP_SIZE), editState.cropBox.width)
    /\ qLe(qInt(MIN_CROP_SIZE), editState.cropBox.height)

\* ================================================ claims C28 and C29
\* Position of a layer in a target, 0 when it was not drawn.
layerAt(target, layer) ==
  IF \E k \in 1..Len(target) : target[k] = layer
  THEN CHOOSE k \in 1..Len(target) : target[k] = layer
  ELSE 0

PreviewRenders == {"renderPreview", "renderPreviewPanning"}
BackgroundLayers == {"color", "#ffffff", "image", "checkerboard"}

\* EditPreview.tsx resets the filter before it draws the foreground.
PreviewResetsFilterFirst ==
  (lib.fn = "renderPreview") => "foreground" \notin lib.filtered

\* C28: in every preview render the background layer is painted before the
\* masked foreground, and the filter is reset to none after the background
\* and before the foreground is drawn: no filter setting changes a foreground
\* pixel.
C28_FiltersSpareForeground ==
  (lib.fn \in PreviewRenders) =>
    /\ \A k \in 1..Len(lib.target) :
         (lib.target[k] \in BackgroundLayers
            /\ layerAt(lib.target, "foreground") # 0)
           => k < layerAt(lib.target, "foreground")
    /\ "foreground" \notin lib.filtered


\* The renders that paint a canvas shown on screen; createExportCanvas is the
\* export.
DisplayRenders == PreviewRenders \cup {"renderComposite"}

\* Layers that leave every pixel they cover opaque.
OpaqueLayers == BackgroundLayers \cup {"original", "stale", "cropOverlay"}

\* Alpha of a pixel of a canvas, given the mask's alpha there: the masked
\* foreground carries the mask's alpha (destination-in), a canvas nothing was
\* drawn on is transparent.
alphaAt(target, mask) ==
  IF \E k \in 1..Len(target) : target[k] \in OpaqueLayers THEN 255
  ELSE IF layerAt(target, "foreground") # 0 THEN mask
  ELSE 0

\* C29: the checkerboard is painted only in preview renders with a
\* transparent background; an export never paints it, and in a transparent
\* export every pixel where the mask is 0 has alpha exactly 0.
C29_CheckerboardPreviewOnly ==
  /\ (lib.fn # "none" /\ layerAt(lib.target, "checkerboard") # 0)
       => (lib.fn \in DisplayRenders /\ lib.background.type = "transparent")
  /\ (lib.fn = "createExportCanvas" /\ lib.outcome = "returned"
        /\ lib.background.type = "transparent" /\ lib.mask = 0)
       => alphaAt(lib.target, lib.mask) = 0

C29_Witness ==
  /\ lib.fn = "createExportCanvas"
  /\ lib.outcome = "returned"
  /\ lib.background.type = "transparent"
  /\ lib.acquired.temp
  /\ lib.mask = 0
  /\ lib.target = <<"foreground">>


\* ========================================================== claim C30
\* Math.round.
jsRound(a) == qFloor(qAdd(a, Q(1, 2)))

min(a, b) == IF a < b THEN a ELSE b
max(a, b) == IF a < b THEN b ELSE a

\* applyCrop(originalImage, maskCanvas, cropBox, displayScale): the rectangle
\* of the source both cropped rasters are copied from and sized to.
applyCrop(image, cropBox, displayScale) ==
  LET actualCrop == [x |-> jsRound(qDiv(cropBox.x, displayScale)),
                     y |-> jsRound(qDiv(cropBox.y, displayScale)),
                     width |-> jsRound(qDiv(cropBox.width, displayScale)),
                     height |-> jsRound(qDiv(cropBox.height, displayScale))]
  IN [x |-> max(0, min(actualCrop.x, image.naturalWidth - 1)),
      y |-> max(0, min(actualCrop.y, image.naturalHeight - 1)),
      width |-> min(actualCrop.width, image.naturalWidth - actualCrop.x),
      height |-> min(actualCrop.height, image.naturalHeight - actualCrop.y)]

\* handleDownload of the result view and of EditingView: the export canvas
\* of createExportCanvas(originalImage, maskCanvas, background), which has
\* the image's natural size; a null context makes it throw.
HandleDownload ==
  /\ ResultsVisible \/ MountedEV
  /\ \E acquired \in BOOLEAN :
       ret' = IF acquired
              THEN [outcome |-> "returned",
                    width |-> uploads[originalImage].naturalWidth,
                    height |-> uploads[originalImage].naturalHeight]
              ELSE [outcome |-> "threw", width |-> 0, height |-> 0]
  /\ lastOp' = "HandleDownload"
  /\ lastRestore' = None
  /\ UNCHANGED <<branches, prev, lib, cap>>
  /\ UNCHANGED <<histVars, imgVars, brushMode, editVars, refineVars,
                 uploadVars, strokes, consecutive>>
  /\ KeepComponents

InitExport ==
  /\ \E m \in SegMasks, size \in CropImages : EditorStateOn(m, FALSE, size)
  /\ lib = None
  /\ cap = CropCap

NextExport == HandleAspectRatioChange \/ HandleApply \/ HandleEdit
                \/ EnterEditing \/ HandleBackToResult \/ HandleDownload

SpecExport == InitExport /\ [][NextExport]_vars

\* The rectangle applyCrop would cut for the stored crop box lies inside the
\* source image and is not empty.
CropRectInsideSource ==
  editState.cropBox # None =>
    LET image == uploads[originalImage]
        r == applyCrop(image, editState.cropBox, editState.cropDisplayScale)
    IN /\ r.x >= 0 /\ r.y >= 0 /\ r.width > 0 /\ r.height > 0
       /\ r.x + r.width <= image.naturalWidth
       /\ r.y + r.height <= image.naturalHeight

\* C30: an export made while a crop box is active has the dimensions of the
\* crop box converted from display to source pixels, a rectangle inside the
\* source image; an export made with no crop box has the full source
\* dimensions.
C30_ExportHonoursCrop ==
  (lastOp = "HandleDownload" /\ ret.outcome = "returned") =>
    LET image == uploads[originalImage]
    IN IF editState.cropBox # None
       THEN LET r == applyCrop(image, editState.cropBox,
                               editState.cropDisplayScale)
            IN /\ ret.width = r.width /\ ret.height = r.height
               /\ r.x + r.width <= image.naturalWidth
               /\ r.y + r.height <= image.naturalHeight
       ELSE /\ ret.width = image.naturalWidth
            /\ ret.height = image.naturalHeight


\* ================================================ claims C31 and C32
\* The coordinate mappings on their own, in exact fractions.  A point of the
\* canvas's backing store is where a source pixel is drawn before any
\* transform; the canvas element is shown at rect (left, top, a CSS scale).
qNeg(a) == [n |-> -a.n, d |-> a.d]
qPoint(x, y) == [x |-> qInt(x), y |-> qInt(y)]

Rotations == {0, 90, 180, 270}

\* Points mapped: the corner, the centre of the 800 x 600 canvas, two others.
MapperPoints == {qPoint(0, 0), qPoint(400, 300), qPoint(100, 50),
                 qPoint(800, 600)}
MapperCanvas == [width |-> 800, height |-> 600]

\* Zoom in hundredths and pan of the main editor, of the refinement viewport.
EditorZooms == {50, 100, 250}
ViewportZooms == {100, 250, 400}
MapperPans == {[x |-> 0, y |-> 0], [x |-> 20, y |-> -10]}

\* getBoundingClientRect of the untransformed canvas element: its corner and
\* CSS pixels per canvas pixel.
MapperRects == {[left |-> 0, top |-> 0, scale |-> Q(1, 1)],
                [left |-> 40, top |-> 16, scale |-> Q(1, 2)]}

\* ctx.rotate by a multiple of 90 degrees (y axis pointing down).
rotate(p, rotation) ==
  IF rotation = 90 THEN [x |-> qNeg(p.y), y |-> p.x]
  ELSE IF rotation = 180 THEN [x |-> qNeg(p.x), y |-> qNeg(p.y)]
  ELSE IF rotation = 270 THEN [x |-> p.y, y |-> qNeg(p.x)]
  ELSE p

\* A transform that scales before it pans: the pan is magnified by the zoom.
applyTransforms_panScaled(p, transforms, canvasWidth, canvasHeight) ==
  LET centerX == qHalf(qInt(canvasWidth))
      centerY == qHalf(qInt(canvasHeight))
      back == [x |-> qSub(p.x, centerX), y |-> qSub(p.y, centerY)]
      flipped == [x |-> IF transforms.flipHorizontal THEN qNeg(back.x)
                        ELSE back.x,
                  y |-> IF transforms.flipVertical THEN qNeg(back.y)
                        ELSE back.y]
      rotated == rotate(flipped, transforms.rotation)
      zoom == Q(transforms.zoom, 100)
  IN [x |-> qAdd(qMul(zoom, qAdd(rotated.x, qInt(transforms.pan.x))),
                 centerX),
      y |-> qAdd(qMul(zoom, qAdd(rotated.y, qInt(transforms.pan.y))),
                 centerY)]

\* applyTransforms(ctx, transforms, canvasWidth, canvasHeight): where the
\* context's matrix puts the point p that is drawn afterwards.
applyTransforms(p, transforms, canvasWidth, canvasHeight) ==
  LET centerX == qHalf(qInt(canvasWidth))
      centerY == qHalf(qInt(canvasHeight))
      back == [x |-> qSub(p.x, centerX), y |-> qSub(p.y, centerY)]
      flipped == [x |-> IF transforms.flipHorizontal THEN qNeg(back.x)
                        ELSE back.x,
                  y |-> IF transforms.flipVertical THEN qNeg(back.y)
                        ELSE back.y]
      rotated == rotate(flipped, transforms.rotation)
      zoom == Q(transforms.zoom, 100)
  IN [x |-> qAdd(qAdd(qMul(zoom, rotated.x), centerX),
                 qInt(transforms.pan.x)),
      y |-> qAdd(qAdd(qMul(zoom, rotated.y), centerY),
                 qInt(transforms.pan.y))]

\* Where the browser shows a canvas point: the client coordinates.
shown(p, rect) ==
  [x |-> qAdd(qInt(rect.left), qMul(p.x, rect.scale)),
   y |-> qAdd(qInt(rect.top), qMul(p.y, rect.scale))]

\* getCanvasCoords(event, canvas): (client - rect.left) * canvas.width /
\* rect.width.
getCanvasCoords(client, rect, canvas) ==
  LET scaleX == qDiv(qInt(canvas.width), rect.width)
      scaleY == qDiv(qInt(canvas.height), rect.height)
  IN [x |-> qMul(qSub(client.x, rect.left), scaleX),
      y |-> qMul(qSub(client.y, rect.top), scaleY)]

\* The bounding rect of a canvas element shown untransformed.
plainRect(rect, canvas) ==
  [left |-> qInt(rect.left), top |-> qInt(rect.top),
   width |-> qMul(qInt(canvas.width), rect.scale),
   height |-> qMul(qInt(canvas.height), rect.scale)]

\* The bounding rect of the refinement canvas under its wrapper's style
\* transform: scale(zoom) translate(pan / zoom), origin center center.
transformStyle(rect, canvas, zoom, pan) ==
  LET plain == plainRect(rect, canvas)
      z == Q(zoom, 10)
      width == qMul(plain.width, z)
      height == qMul(plain.height, z)
  IN [left |-> qAdd(qAdd(plain.left, qHalf(qSub(plain.width, width))),
                    qInt(pan.x)),
      top |-> qAdd(qAdd(plain.top, qHalf(qSub(plain.height, height))),
                   qInt(pan.y)),
      width |-> width, height |-> height]

\* Where the browser shows a canvas point of an element with bounding rect r.
shownIn(p, r, canvas) ==
  [x |-> qAdd(r.left, qDiv(qMul(p.x, r.width), qInt(canvas.width))),
   y |-> qAdd(r.top, qDiv(qMul(p.y, r.height), qInt(canvas.height)))]

MapperInputs ==
  [surface : {"editor"}, P : MapperPoints, rotation : Rotations,
   flipHorizontal : BOOLEAN, flipVertical : BOOLEAN, zoom : EditorZooms,
   pan : MapperPans, rect : MapperRects]
  \cup
  [surface : {"refine"}, P : MapperPoints, rotation : {0},
   flipHorizontal : {FALSE}, flipVertical : {FALSE},
   zoom : {z \div 10 : z \in ViewportZooms}, pan : MapperPans,
   rect : MapperRects]

InitMapper ==
  /\ initialState
  /\ cap = SessionCap
  /\ \E in \in MapperInputs :
       lib = [fn |-> "none", in |-> in, canvasPoint |-> None,
              client |-> None, back |-> None]

\* The main editor draws the source point through applyTransforms; the
\* browser shows the canvas at rect.
ToViewportSpace ==
  /\ lib.fn = "none"
  /\ lib.in.surface = "editor"
  /\ LET v == applyTransforms(lib.in.P, lib.in, MapperCanvas.width,
                              MapperCanvas.height)
     IN lib' = [lib EXCEPT !.fn = "applyTransforms", !.canvasPoint = v,
                           !.client = shown(v, lib.in.rect)]
  /\ RenderFrame

\* A pointer event at the shown point: getCanvasCoords of EditPreview.
ToSourceSpace ==
  /\ lib.fn = "applyTransforms"
  /\ lib' = [lib EXCEPT
               !.fn = "getCanvasCoords",
               !.back = getCanvasCoords(lib.client,
                                        plainRect(lib.in.rect, MapperCanvas),
                                        MapperCanvas)]
  /\ RenderFrame

\* The refinement viewport shows the canvas point under transformStyle.
RcToViewportSpace ==
  /\ lib.fn = "none"
  /\ lib.in.surface = "refine"
  /\ LET r == transformStyle(lib.in.rect, MapperCanvas, lib.in.zoom,
                             lib.in.pan)
     IN lib' = [lib EXCEPT !.fn = "transformStyle",
                           !.canvasPoint = lib.in.P,
                           !.client = shownIn(lib.in.P, r, MapperCanvas)]
  /\ RenderFrame

\* A pointer event at the shown point: getAdjustedCoords of RefineCanvas.
RcToSourceSpace ==
  /\ lib.fn = "transformStyle"
  /\ lib' = [lib EXCEPT
               !.fn = "getAdjustedCoords",
               !.back = getCanvasCoords(
                          lib.client,
                          transformStyle(lib.in.rect, MapperCanvas,
                                         lib.in.zoom, lib.in.pan),
                          MapperCanvas)]
  /\ RenderFrame

NextMapper == ToViewportSpace \/ ToSourceSpace \/ RcToViewportSpace
                \/ RcToSourceSpace

SpecMapper == InitMapper /\ [][NextMapper]_vars

\* The refinement viewport's mapping inverts its zoom, pan and CSS scaling.
ViewportRoundTrips ==
  (lib.fn = "getAdjustedCoords") => lib.back = lib.in.P

\* The main editor's mapping inverts the CSS scaling: it returns the canvas
\* point that was shown.
EditorInvertsCssScale ==
  (lib.fn = "getCanvasCoords") => lib.back = lib.canvasPoint

\* C31: for every point P, every rotation in {0, 90, 180, 270}, every flip
\* combination and every in-range zoom and pan, mapping P from source space
\* to viewport space and back to source space returns P.
C31_MappingRoundTrips ==
  (lib.fn \in {"getCanvasCoords", "getAdjustedCoords"}) => lib.back = lib.in.P


MapperCentre == qPoint(400, 300)
NoPan == [x |-> 0, y |-> 0]
displaced(p, pan) == [x |-> qAdd(p.x, qInt(pan.x)), y |-> qAdd(p.y, qInt(pan.y))]

\* C32: for every rotation, flip combination and zoom the view transform
\* maps the surface centre to centre + pan, and the pan displaces the
\* rendered content by exactly (pan.x, pan.y) viewport pixels, independent of
\* zoom, rotation and flips.
C32_PanDisplacesByPan ==
  /\ (lib.in.surface = "editor" /\ lib.fn # "none") =>
       /\ (lib.in.P = MapperCentre)
            => lib.canvasPoint = displaced(MapperCentre, lib.in.pan)
       /\ lib.canvasPoint
            = displaced(applyTransforms(lib.in.P,
                                        [lib.in EXCEPT !.pan = NoPan],
                                        MapperCanvas.width,
                                        MapperCanvas.height),
                        lib.in.pan)
  /\ (lib.in.surface = "refine" /\ lib.fn # "none") =>
       lib.client
         = displaced(shownIn(lib.in.P,
                             transformStyle(lib.in.rect, MapperCanvas,
                                            lib.in.zoom, NoPan),
                             MapperCanvas),
                     lib.in.pan)

C32_Witness ==
  /\ lib.fn = "applyTransforms"
  /\ lib.in.P = MapperCentre
  /\ lib.in.rotation = 90
  /\ lib.in.flipHorizontal
  /\ lib.in.zoom = 250
  /\ lib.in.pan = [x |-> 20, y |-> -10]
  /\ lib.canvasPoint = qPoint(420, 290)


\* ========================================================== claim C33
\* The crop box grown by the handle size on every side: a point outside it is
\* on no handle, on no edge and not inside the box.
NearCrop(x, y, crop) ==
  /\ qLe(qSub(crop.x, qInt(HANDLE_SIZE)), x)
  /\ qLe(x, qAdd(qAdd(crop.x, crop.width), qInt(HANDLE_SIZE)))
  /\ qLe(qSub(crop.y, qInt(HANDLE_SIZE)), y)
  /\ qLe(y, qAdd(qAdd(crop.y, crop.height), qInt(HANDLE_SIZE)))

\* C33: crop dragging starts only on a pointer-down that lands on a zone of
\* an active crop box, ends on the next pointer-up (on or off the canvas),
\* and pointer input changes the crop box only by a move while dragging; a
\* pointer-down outside every zone leaves the interaction idle and the box
\* unchanged.
C33_CropDragMachine ==
  [][/\ (~dragState.isDragging /\ dragState'.isDragging) =>
          /\ lastOp' = "EpMouseDown"
          /\ CropShown
          /\ dragState'.handleType # "null"
          /\ dragState'.startCrop = editState.cropBox
          /\ NearCrop(dragState'.startX, dragState'.startY, editState.cropBox)
     /\ (lastOp' = "EpMouseUp") => ~dragState'.isDragging
     /\ (lastOp' \in {"EpMouseDown", "EpMouseUp"}) =>
          editState'.cropBox = editState.cropBox
     /\ (lastOp' = "EpMouseMove" /\ ~dragState.isDragging) =>
          editState'.cropBox = editState.cropBox]_vars

\* A drag that started on a handle has moved the box and was ended by a
\* pointer-up.
C33_Witness ==
  /\ lastOp = "EpMouseUp"
  /\ ~dragState.isDragging
  /\ tally.drags = 1
  /\ editState.cropBox # None
  /\ editState.cropBox # dragState.startCrop


\* ========================================================== claim C34
CornerHandles == {"tl", "tr", "bl", "br"}

\* The corner of a box diagonally opposite a corner handle.
oppositeCorner(crop, handleType) ==
  [x |-> IF handleType \in {"tl", "bl"} THEN qAdd(crop.x, crop.width)
         ELSE crop.x,
   y |-> IF handleType \in {"tl", "tr"} THEN qAdd(crop.y, crop.height)
         ELSE crop.y]

\* C34: during a corner-handle drag the corner diagonally opposite the
\* dragged handle stays at its drag-start position after every pointer-move,
\* for free and for locked aspect ratios, also when the minimum size or the
\* surface bounds limit the resize.
C34_OppositeCornerAnchored ==
  (lastOp = "EpMouseMove" /\ dragState.isDragging
     /\ dragState.handleType \in CornerHandles /\ editState.cropBox # None)
    => oppositeCorner(editState.cropBox, dragState.handleType)
         = oppositeCorner(dragState.startCrop, dragState.handleType)


\* ========================================================== claim C35
\* A box of the given ratio, centred in the canvas, its limiting dimension
\* 80% of the canvas's, inside the canvas.
CentredDefault(crop, canvas, ratio) ==
  LET cw == qInt(canvas.width)
      ch == qInt(canvas.height)
      share == Q(80, 100)
  IN /\ crop.width = qMul(crop.height, ratio)
     /\ qAdd(qAdd(crop.x, crop.x), crop.width) = cw
     /\ qAdd(qAdd(crop.y, crop.y), crop.height) = ch
     /\ \/ crop.width = qMul(share, cw) /\ qLe(crop.height, qMul(share, ch))
        \/ crop.height = qMul(share, ch) /\ qLe(crop.width, qMul(share, cw))
     /\ qLe(qInt(0), crop.x) /\ qLe(qInt(0), crop.y)
     /\ qLe(qAdd(crop.x, crop.width), cw)
     /\ qLe(qAdd(crop.y, crop.height), ch)

\* C35: when the aspect-ratio selection changes to a fixed ratio, the crop
\* box becomes a box of exactly that ratio, centred in the surface, whose
\* limiting dimension is 80% of the surface's, and which lies inside the
\* surface.
C35_FixedRatioRecentres ==
  [][(/\ lastOp' = "HandleAspectRatioChange"
      /\ editState'.aspectRatio # editState.aspectRatio
      /\ ASPECT_RATIO_VALUES(editState'.aspectRatio) # None)
       => /\ editState'.cropBox # None
          /\ CentredDefault(editState'.cropBox, Canvas,
                            ASPECT_RATIO_VALUES(editState'.aspectRatio))]_vars

\* 16:9 was selected after the box had been dragged elsewhere: the box is the
\* centred one, 80% of the canvas wide.
C35_Witness ==
  /\ lastOp = "HandleAspectRatioChange"
  /\ editState.aspectRatio = "16:9"
  /\ tally.drags = 1
  /\ editState.cropBox # None
  /\ editState.cropBox # dragState.startCrop
  /\ editState.cropBox.width = qMul(Q(80, 100), qInt(Canvas.width))


\* ========================================================== claim C36
\* C36: once a change of the aspect-ratio selection to "original" has been
\* processed the crop box is null, and it stays null for as long as the
\* selection remains "original": no pointer input creates a crop box then.
C36_OriginalHasNoCrop ==
  (editState.aspectRatio = "original") => editState.cropBox = None

\* Back on "original" after a box had been dragged, a press on the canvas:
\* still no box and no drag.
C36_Witness ==
  /\ lastOp = "EpMouseDown"
  /\ editState.aspectRatio = "original"
  /\ tally.drags = 1
  /\ ~dragState.isDragging
  /\ editState.cropBox = None


\* ========================================================== claim C37
\* The refinement canvas under mouse and Space key input alone.
NextPan == RcKeyDownSpace \/ RcKeyUpSpace \/ RcMouseDown \/ RcMouseMove
             \/ RcMouseUp \/ RcMouseLeave

SpecPan == InitGesture /\ [][NextPan]_vars

\* A press in pan mode starts a pan and leaves the stroke flag and the mask
\* as they were; a move while panning leaves the mask alone.
PanLeavesMaskAlone ==
  [][/\ (lastOp' = "down" /\ refineEdgesState.isSpacePressed) =>
          /\ rc'.isPanning
          /\ rc'.isDrawing = rc.isDrawing
          /\ maskCanvas' = maskCanvas
     /\ (lastOp' = "move" /\ rc.isPanning /\ rc.lastPanPos) =>
          maskCanvas' = maskCanvas]_vars

\* C37: in the refinement viewport panning and stroking are never active
\* together, and after any pointer-up neither a pan nor a stroke remains
\* active.
C37_PanOrStrokeNeverBoth ==
  /\ ~(rc.isPanning /\ rc.isDrawing)
  /\ (lastOp = "up") => (~rc.isPanning /\ ~rc.isDrawing)


\* ======================================================== claim C38
\* Snapshot restorations in flight together, and strokes drawn while one is
\* pending: explored from an opened editor, through the editing view (undo,
\* redo) and through a refinement session (Reset All Edits).
MaxRestorePending == 2   \* snapshot restorations in flight together
MaxRestoreStrokes == 2   \* strokes ended in the session

RestoreCap == [uploads |-> 1, sizes |-> 1, strokes |-> MaxRestoreStrokes,
               pending |-> MaxRestorePending, touches |-> 0, landing |-> 1,
               pan |-> 0, zoom |-> 10, edits |-> SessionEdits]

InitRestore ==
  /\ \E m \in SegMasks : EditorOpened(m)
  /\ lib = None
  /\ cap = RestoreCap

NextRestore == HandleExit \/ EnterEditing \/ EvMouseDown \/ EvMouseMove
                 \/ EvMouseUp \/ EvUndo \/ EvRedo \/ SetBrushMode
                 \/ HandleOpenRefineEdges \/ RcMouseDown \/ RcMouseMove
                 \/ RcMouseUp \/ HandleResetAllEdits \/ CompleteRestore

SpecRestore == InitRestore /\ [][NextRestore]_vars

\* A restoration that completes with no other one pending and nothing drawn
\* since its call leaves the mask holding its snapshot.
RestoreAlonePutsSnapshot ==
  [][(lastOp' = "CompleteRestore" /\ Len(restores) = 1
        /\ maskCanvas.id = restores[1].canvas
        /\ restores[1].want = restores[1].snap.png)
       => maskCanvas'.px = restores[1].snap.png]_vars

\* C38 (refuted by the code): restorations take effect in the order they
\* were issued, and once the last pending one has completed the mask holds
\* its snapshot with every segment drawn since its call on top.
C38_RestorationsInOrder ==
  [][lastOp' = "CompleteRestore" =>
       /\ lastRestore' = Head(restores)
       /\ (Len(restores) = 1 /\ maskCanvas.id = restores[1].canvas)
            => maskCanvas'.px = restores[1].want]_vars


\* ======================================================== claim C39
\* The Escape key.  EditModal and RefineEdgesModal each add a keydown
\* listener to the document while open; a key press reaches them in the
\* order they were added: EditModal's (added when the editor opened), then
\* RefineEdgesModal's (added when the refinement session opened).
\* EditModal.handleEscape calls handleExit; RefineEdgesModal.handleEscape
\* calls handleFinishRefining.  When handleExit has closed the editor, React
\* may or may not have unmounted RefineEdgesModal, and with it removed its
\* listener, before the dispatch reaches it.
EscapeKey ==
  /\ MountedEM
  /\ LET closes == ~hasUnsavedEdits
     IN \E removed \in IF closes /\ isRefineModalOpen THEN BOOLEAN
                       ELSE {FALSE} :
          LET finishes == isRefineModalOpen /\ ~removed
          IN /\ editState' =
                  IF closes THEN editInitialState
                  ELSE IF finishes
                  THEN mountEffect(editState, uploads[originalImage])
                  ELSE editState
             /\ isEditModalOpen' = ~closes
             /\ hasUnsavedEdits' = (finishes \/ ~closes)
             /\ IF finishes
                THEN /\ IF hasSessionEdits
                        THEN Push(saveMaskSnapshot(maskCanvas.px))
                        ELSE UNCHANGED histVars
                     /\ CloseRefine
                ELSE UNCHANGED <<histVars, refineVars>>
             /\ Obs("EscapeKey")
             /\ UNCHANGED <<imgVars, brushMode, uploadVars, strokes,
                            consecutive>>
             /\ ComponentsOf(emConfirm \/ ~closes, RmNow, rc, ev, touches,
                             restores,
                             IF finishes THEN dragInitial ELSE dragState,
                             IF editState' = editInitialState THEN NoTally
                             ELSE tally)

\* Explored from an opened editor: edits, refinement sessions with strokes,
\* Escape presses, and the editor re-opened after it closed.
EscapeCap == [uploads |-> 1, sizes |-> 1, strokes |-> 1, pending |-> 0,
              touches |-> 0, landing |-> 1, pan |-> 0, zoom |-> 10,
              edits |-> SessionEdits]

InitEscape ==
  /\ \E m \in AnyMasks : EditorOpened(m)
  /\ lib = None
  /\ cap = EscapeCap

NextEscape == EscapeKey \/ HandleOpenRefineEdges \/ HandleFinishRefining
                \/ SetEditState \/ EmKeepEditing \/ HandleEdit
                \/ RcMouseDown \/ RcMouseMove \/ RcMouseUp

SpecEscape == InitEscape /\ [][NextEscape]_vars

\* Escape in a refinement session always ends up with no refinement session
\* shown: either the session finished or the editor around it closed.
EscapeLeavesRefinement ==
  [][(lastOp' = "EscapeKey" /\ MountedRM) => ~MountedRM']_vars

\* C39 (refuted by the code): Escape pressed while the refinement viewport is
\* open finishes the refinement session and nothing else: the main editor
\* stays open, its edit state is kept, and no discard dialog opens.
C39_EscapeOnlyFinishesRefinement ==
  [][(lastOp' = "EscapeKey" /\ MountedRM) =>
       /\ ~isRefineModalOpen'
       /\ isEditModalOpen'
       /\ editState' = editState
       /\ emConfirm' = emConfirm
       /\ ~rmConfirm']_vars


\* ======================================================== claim C40
\* Refinement sessions opened from an editor that is either untouched or has
\* the 1:1 ratio selected and its crop box dragged 40 pixels up and to the
\* left; in the editor the ratio, the zoom, the rotation and the flips are
\* changed.
MaxFrameTurns == 1       \* clicks on each rotate button

FrameCap == [uploads |-> 1, sizes |-> 1, strokes |-> 0,
             pending |-> 0, touches |-> 0, landing |-> 1, pan |-> 0,
             zoom |-> 10, edits |-> SessionEdits, turns |-> MaxFrameTurns,
             drags |-> 1, grid |-> 1]

\* The editor after 1:1 was selected, the crop box pressed at its centre,
\* dragged by (-40, -40) and released.
Dragged(size) ==
  LET canvas == previewCanvas(size)
      selected == cropEffect(setEditState(editInitialState,
                                          [aspectRatio |-> "1:1"]),
                             canvas, size)
      start == selected.cropBox
      at == [x |-> qAdd(start.x, qHalf(start.width)),
             y |-> qAdd(start.y, qHalf(start.height))]
      moved == enforceBounds(draggedCrop(start, "move", qInt(-40), qInt(-40),
                                         qInt(1)),
                             canvas.width, canvas.height, qInt(1))
  IN [op |-> "EpMouseUp",
      state |-> setEditState(selected, [cropBox |-> moved]),
      unsaved |-> TRUE,
      drag |-> [isDragging |-> FALSE, handleType |-> "null",
                startX |-> at.x, startY |-> at.y, startCrop |-> start],
      tally |-> [NoTally EXCEPT !.drags = 1]]

\* Dragged is a state of the crop machine.
DraggedUnreached ==
  \A size \in DragImages :
    ~(/\ lastOp = Dragged(size).op
      /\ editState = Dragged(size).state
      /\ hasUnsavedEdits = Dragged(size).unsaved
      /\ dragState = Dragged(size).drag
      /\ tally = Dragged(size).tally
      /\ uploads = <<size>>)

InitFrame ==
  /\ \E m \in SegMasks, size \in DragImages :
       \E edited \in {Unedited, Dragged(size)} :
         EditorStateWith(m, FALSE, size, edited)
  /\ lib = None
  /\ cap = FrameCap

NextFrame == HandleAspectRatioChange \/ SetEditState \/ HandleRotate
               \/ HandleFlipHorizontal \/ HandleFlipVertical
               \/ HandleOpenRefineEdges \/ HandleFinishRefining

SpecFrame == InitFrame /\ [][NextFrame]_vars

\* The steps that open a refinement session and that finish it.
RefineRoundTrip ==
  lastOp' \in {"HandleOpenRefineEdges", "HandleFinishRefining"}

\* Opening and finishing a refinement session keep the aspect-ratio
\* selection, the rotation, the flips, the zoom, the pan and the filters,
\* and keep the crop box absent while "original" is selected.
RefineKeepsView ==
  [][RefineRoundTrip =>
       /\ \A f \in {"aspectRatio", "rotation", "flipHorizontal",
                    "flipVertical", "zoom", "pan", "filters"} :
            editState'[f] = editState[f]
       /\ editState.aspectRatio = "original" => editState'.cropBox = None]_vars

\* C40 (refuted by the code): opening the refinement viewport and finishing
\* it leaves the main editor's crop box, aspect-ratio selection, rotation,
\* flips, zoom, pan and filters exactly as they were.
C40_RefineKeepsEditorState ==
  [][RefineRoundTrip =>
       \A f \in {"cropBox", "aspectRatio", "rotation", "flipHorizontal",
                 "flipVertical", "zoom", "pan", "filters"} :
         editState'[f] = editState[f]]_vars

====
